---------------------------- MODULE Spec2Model ----------------------------
(***************************************************************************)
(* Model of src/graph_d3.py: the canonical graph model the script emits    *)
(* and the interactive client (the script embedded in the emitted page):   *)
(* type and year filters, selection, highlight, neighbour dimming, node    *)
(* drag, viewport transform, fly-to and search.                            *)
(*                                                                         *)
(* Text is a sequence of one-character strings.  Numbers that the page     *)
(* computes in floating point are exact extended rationals [n, d]:         *)
(* d > 0 finite, <<1,0>> Infinity, <<-1,0>> -Infinity, <<0,0>> NaN.        *)
(***************************************************************************)
EXTENDS Integers, Sequences, FiniteSets, TLC

\* ------------------------------------------------------------------ bounds
\* window.innerWidth / window.innerHeight of the browser window
InnerWidth == 1280
InnerHeight == 720
\* year-handle values offered above GLOBAL_MIN_YEAR (GLOBAL_MAX_YEAR is always offered)
MaxYearSteps == 1
\* total horizontal displacement, over all nodes, that drags may accumulate
MaxDrag == 1
\* pad letters before the last word of a long citation entry
MaxPad == 82
\* nodes of the graphs the result list is checked on
MaxListed == 48
\* nodes that follow the first node of a graph file
MaxTail == 1
\* clipboard writes and toast timers that may be outstanding together
MaxCopies == 1
\* nodes of the graphs the load-time fit is checked on
MaxFitNodes == 3

\* ------------------------------------------------------------- constants
FALLBACK_MIN_YEAR == 1990
FALLBACK_MAX_YEAR == 2025
SNIPPET_LEN == 80
MIN_FONT_SIZE == 8
DEFAULT_SIZE == 10
MAX_RESULTS == 30
\* JSON null of minYear / maxYear (Python None); `!d.minYear` is true of it
NoYear == 0
\* JS null of selectedNodeId
NullId == "null"
\* the side panel's placeholder content
PanelHint == "hint"

\* ------------------------------------------------------------------ text
Min2(a, b) == IF a <= b THEN a ELSE b

SetMin(S) == CHOOSE x \in S : \A y \in S : x <= y
SetMax(S) == CHOOSE x \in S : \A y \in S : x >= y

\* str.lower() / String.prototype.toLowerCase on the letters the inputs use
LowerChar(c) ==
  CASE c = "A" -> "a" [] c = "B" -> "b" [] c = "C" -> "c" [] c = "D" -> "d"
    [] c = "E" -> "e" [] c = "F" -> "f" [] c = "G" -> "g" [] c = "H" -> "h"
    [] c = "I" -> "i" [] c = "J" -> "j" [] c = "K" -> "k" [] c = "L" -> "l"
    [] c = "M" -> "m" [] c = "N" -> "n" [] c = "O" -> "o" [] c = "P" -> "p"
    [] c = "Q" -> "q" [] c = "R" -> "r" [] c = "S" -> "s" [] c = "T" -> "t"
    [] c = "U" -> "u" [] c = "V" -> "v" [] c = "W" -> "w" [] c = "X" -> "x"
    [] c = "Y" -> "y" [] c = "Z" -> "z"
    [] OTHER -> c

toLowerCase(s) == [i \in 1..Len(s) |-> LowerChar(s[i])]

\* String.prototype.includes / Python `in`
includes(s, q) ==
  \E i \in 0..(Len(s) - Len(q)) : SubSeq(s, i + 1, i + Len(q)) = q

\* index (from 1) of the first occurrence of q in s, 0 when there is none
IndexOf(s, q) ==
  IF includes(s, q)
  THEN SetMin({i \in 1..(Len(s) - Len(q) + 1) : SubSeq(s, i, i + Len(q) - 1) = q})
  ELSE 0

\* String.prototype.trim (the inputs' only white space is the blank)
RECURSIVE trim(_)
trim(s) ==
  IF s = <<>> THEN s
  ELSE IF Head(s) = " " THEN trim(Tail(s))
  ELSE IF s[Len(s)] = " " THEN trim(SubSeq(s, 1, Len(s) - 1))
  ELSE s

\* String.prototype.split with a non-empty separator
RECURSIVE split(_, _)
split(s, sep) ==
  LET i == IndexOf(s, sep) IN
  IF i = 0 THEN <<s>>
  ELSE <<SubSeq(s, 1, i - 1)>> \o split(SubSeq(s, i + Len(sep), Len(s)), sep)

\* String.prototype.substring(0, n)
substring0(s, n) == SubSeq(s, 1, Min2(n, Len(s)))

STR_SUBTOPIC == <<"s", "u", "b", "t", "o", "p", "i", "c">>
STR_AUTHOR == <<"a", "u", "t", "h", "o", "r">>
SEARCH_SEP == <<" ", "|", " ">>

\* ------------------------------------------------------------- numbers
RECURSIVE GCD(_, _)
GCD(a, b) == IF b = 0 THEN a ELSE GCD(b, a % b)

Abs(x) == IF x < 0 THEN -x ELSE x
Sign(x) == IF x < 0 THEN -1 ELSE IF x > 0 THEN 1 ELSE 0

\* the extended rational n/d, d >= 0, in lowest terms
Norm(n, d) ==
  IF d = 0 THEN <<Sign(n), 0>>
  ELSE LET g == GCD(Abs(n), d) IN <<n \div g, d \div g>>

Num(i) == <<i, 1>>
NaN == <<0, 0>>

Add(a, b) ==
  IF a[2] = 0 /\ b[2] = 0 THEN (IF a = b THEN a ELSE NaN)
  ELSE Norm(a[1] * b[2] + b[1] * a[2], a[2] * b[2])
Neg(a) == <<-a[1], a[2]>>
Sub(a, b) == Add(a, Neg(b))
Mul(a, b) == Norm(a[1] * b[1], a[2] * b[2])
\* 1/a; 1/0 is Infinity (the zero here is a difference of coordinates, +0)
Inv(a) == IF a[1] < 0 THEN <<-a[2], -a[1]>> ELSE <<a[2], a[1]>>
Div(a, b) == Mul(a, Inv(b))
\* Math.max of two numbers
MathMax(a, b) ==
  IF a = NaN \/ b = NaN THEN NaN
  ELSE IF a[2] = 0 THEN (IF a[1] > 0 THEN a ELSE b)
  ELSE IF b[2] = 0 THEN (IF b[1] > 0 THEN b ELSE a)
  ELSE IF a[1] * b[2] >= b[1] * a[2] THEN a ELSE b

\* d3.zoomIdentity.translate(tx, ty).scale(k)
Transform(k, tx, ty) == [k |-> k, x |-> tx, y |-> ty]

\* ------------------------------------------------- the canonical model
\* A node record as the build loop emits it (radius, fontSize and color are
\* presentation only; apa is kept as "has citations").
Node(id, label, type, x, y, searchText, minYear, maxYear) ==
  [id |-> id, label |-> label, type |-> type, x |-> x, y |-> y,
   searchText |-> searchText, minYear |-> minYear, maxYear |-> maxYear]

Edge(u, v) == [source |-> u, target |-> v]

\* Three nodes (a Subtopic, an Author, one whose type names both and has no
\* years), two edges and a self-loop, years 2019..2021.
GraphA ==
  [nodes |-> <<
     Node("n1", <<"T", "a">>, <<"S", "u", "b", "t", "o", "p", "i", "c">>,
          0, 0, <<"a", " ", "|", " ", "b">>, 2019, 2020),
     Node("n2", <<"b">>, <<"A", "U", "T", "H", "O", "R">>,
          4, 0, <<"A", "b">>, 2021, 2021),
     Node("n3", <<"A", "3">>,
          <<"a", "u", "t", "h", "o", "r", "-", "s", "u", "b", "t", "o", "p", "i", "c">>,
          0, -2, <<>>, NoYear, NoYear) >>,
   edges |-> << Edge("n1", "n2"), Edge("n3", "n2"), Edge("n3", "n3") >>]

\* Two nodes without any year (the fallback bounds apply): one of no type,
\* one Author; a self-loop, and an edge whose target is no node (the edge
\* build loop copies the ends as they come, and the page draws an end it does
\* not find at the origin).
GraphB ==
  [nodes |-> <<
     Node("o1", <<"a">>, <<>>, 1, 1, <<>>, NoYear, NoYear),
     Node("a2", <<"B", " ", "b">>, <<"c", "o", "-", "A", "u", "t", "h", "o", "r">>,
          3, 1, <<"b", " ", "a">>, NoYear, NoYear) >>,
   edges |-> << Edge("o1", "a2"), Edge("o1", "o1"), Edge("a2", "ghost") >>]

\* A graph for the search box: the first node's citations are two entries, the
\* first one "x...xan" with pad letters x before its last word, the second "bo".
RECURSIVE Pad(_)
Pad(k) == IF k = 0 THEN <<>> ELSE <<"x">> \o Pad(k - 1)

SearchGraph(pad) ==
  [nodes |-> <<
     Node("s1", <<"T", "a">>, <<>>, 0, 0,
          Pad(pad) \o <<"a", "n">> \o <<" ", "|", " ">> \o <<"b", "o">>, NoYear, NoYear),
     Node("s2", <<"B", "o", "b">>, <<>>, 2, 2, <<"T", "a", "n">>, NoYear, NoYear) >>,
   edges |-> << Edge("s1", "s2") >>]

\* A graph of k nodes "1", "2", ... for the result list: every third node,
\* from the first, is labelled "A"; the others are labelled "b", and every
\* third node, from the second, cites "xa".
ListGraph(k) ==
  [nodes |-> [i \in 1..k |->
     Node(ToString(i),
          IF i % 3 = 1 THEN <<"A">> ELSE <<"b">>,
          <<>>, i, -i,
          IF i % 3 = 2 THEN <<"x", "a">> ELSE <<>>,
          NoYear, NoYear)],
   edges |-> << Edge("1", "2") >>]

\* A graph of unconnected nodes "1", "2", ... at the positions ps.
FitGraph(ps) ==
  [nodes |-> [i \in 1..Len(ps) |->
     Node(ToString(i), <<"a">>, <<>>, ps[i][1], ps[i][2], <<>>, NoYear, NoYear)],
   edges |-> <<>>]

\* the graphs the page is generated from
ClientGraphs == {[name |-> "A", pad |-> 0], [name |-> "B", pad |-> 0]}
SearchGraphs == {[name |-> "S", pad |-> k] : k \in 0..MaxPad}
\* (pad is the number of nodes here)
ListGraphs == {[name |-> "L", pad |-> k] : k \in {2, MaxListed - 2, MaxListed - 1, MaxListed}}

GraphOf(file) ==
  CASE file.name = "A" -> GraphA
    [] file.name = "B" -> GraphB
    [] file.name = "S" -> SearchGraph(file.pad)
    [] file.name = "L" -> ListGraph(file.pad)
    [] file.name = "F" -> FitGraph(file.at)

Range(f) == {f[i] : i \in DOMAIN f}
NodeIds(g) == {g.nodes[i].id : i \in DOMAIN g.nodes}
NodeOf(g, id) == CHOOSE d \in Range(g.nodes) : d.id = id
EdgeIdx(g) == DOMAIN g.edges

\* all_years of the build loop: only its minimum and maximum are used
AllYears(g) ==
  {d.minYear : d \in {n \in Range(g.nodes) : n.minYear # NoYear}}
    \cup {d.maxYear : d \in {n \in Range(g.nodes) : n.maxYear # NoYear}}

global_min_year(g) ==
  IF AllYears(g) # {} THEN SetMin(AllYears(g)) ELSE FALLBACK_MIN_YEAR
global_max_year(g) ==
  IF AllYears(g) # {} THEN SetMax(AllYears(g)) ELSE FALLBACK_MAX_YEAR

\* the colour rule of the build loop: first rule wins
colorCategory(d) ==
  IF includes(toLowerCase(d.type), STR_SUBTOPIC) THEN "Subtopic"
  ELSE IF includes(toLowerCase(d.type), STR_AUTHOR) THEN "Author"
  ELSE "Other"

\* ------------------------------------------------------------ the client
VARIABLES
  graphFile,        \* which graph the page was generated from
  filterSubtopic, filterAuthor, filterOther,
  yearFrom, yearTo,
  nodeHidden,       \* ids of the g.node elements with display: none
  edgeHidden,       \* indices of the edge lines with display: none
  statVisible,      \* text of #stat-visible
  selectedNodeId,
  neighborMode,
  highlighted,      \* ids of the g.node elements of class node-highlight
  panel,            \* id of the node #sidepanel shows, or PanelHint
  dimmedNodes,      \* ids of the g.node elements of class dimmed
  dimmedEdges,      \* indices of the edge lines of class dimmed
  nodePos,          \* id -> [x, y]
  nodeTranslate,    \* id -> [x, y]: the transform attribute of each g.node
  edgeLines,        \* index -> [x1, y1, x2, y2]: the attributes of each line
  transform,        \* the zoom transform of the svg
  initTransform,
  results,          \* the results array of the last input event
  resultsShown,     \* searchResults.style.display = "block"
  py,               \* the module namespace of the script while it runs
  pendingWrites,    \* the texts of the clipboard writes not yet settled
  clipboardText,    \* the text the page wrote to the clipboard last
  toastShown,       \* #copy-toast has opacity 1
  toastTimers       \* the 2000 ms timers of the toast not yet fired

vars == <<py, pendingWrites, clipboardText, toastShown, toastTimers, graphFile, filterSubtopic, filterAuthor, filterOther, yearFrom, yearTo,
          nodeHidden, edgeHidden, statVisible, selectedNodeId, neighborMode,
          highlighted, panel, dimmedNodes, dimmedEdges, nodePos, nodeTranslate,
          edgeLines, transform, initTransform, results, resultsShown>>

filterVars == <<filterSubtopic, filterAuthor, filterOther, yearFrom, yearTo,
                nodeHidden, edgeHidden, statVisible>>
selectVars == <<selectedNodeId, highlighted, panel>>
dimVars == <<dimmedNodes, dimmedEdges>>
posVars == <<nodePos, nodeTranslate, edgeLines>>
searchVars == <<results>>
copyVars == <<pendingWrites, clipboardText, toastShown, toastTimers>>

\* the page has written nothing to the clipboard
NoText == [node |-> NullId, entry |-> 0]

\* no citation has been copied
NoCopies ==
  /\ pendingWrites = <<>> /\ clipboardText = NoText
  /\ toastShown = FALSE /\ toastTimers = 0

\* const graphData: the embedded model {nodes, edges}
graphData == GraphOf(graphFile)

GLOBAL_MIN_YEAR == global_min_year(graphData)
GLOBAL_MAX_YEAR == global_max_year(graphData)

\* mutant: the adjacency built in one direction only
adjSet_oneWay(g, id) ==
  {g.edges[i].target : i \in {j \in EdgeIdx(g) : g.edges[j].source = id}}

\* adjSet[id] || new Set(): built once from the edge list, both directions
adjSet(g, id) ==
  {g.edges[i].target : i \in {j \in EdgeIdx(g) : g.edges[j].source = id}}
    \cup {g.edges[i].source : i \in {j \in EdgeIdx(g) : g.edges[j].target = id}}

\* mutant: an end that names no node is drawn away from the origin
PosOrOrigin_offOrigin(pos, id) == IF id \in DOMAIN pos THEN pos[id] ELSE [x |-> 1, y |-> 1]

\* nodePos[id]?.x ?? 0 and nodePos[id]?.y ?? 0
PosOrOrigin(pos, id) == IF id \in DOMAIN pos THEN pos[id] ELSE [x |-> 0, y |-> 0]

\* the x1, y1, x2, y2 attributes the edge lines are drawn with
DrawEdges(g, pos) ==
  [i \in EdgeIdx(g) |->
     [x1 |-> PosOrOrigin(pos, g.edges[i].source).x,
      y1 |-> PosOrOrigin(pos, g.edges[i].source).y,
      x2 |-> PosOrOrigin(pos, g.edges[i].target).x,
      y2 |-> PosOrOrigin(pos, g.edges[i].target).y]]

\* the transform that fits the bounding box of the coordinates xs, ys
fitTransform(xs, ys) ==
  LET minX == SetMin(xs)  maxX == SetMax(xs)
      minY == SetMin(ys)  maxY == SetMax(ys)
      W == Num(InnerWidth)  H == Num(InnerHeight)
      scale == Div(<<85, 100>>,
                   MathMax(Div(Num(maxX - minX), W), Div(Num(maxY - minY), H)))
      tx == Sub(Div(W, Num(2)), Div(Mul(scale, Num(minX + maxX)), Num(2)))
      ty == Sub(Div(H, Num(2)), Div(Mul(scale, Num(minY + maxY)), Num(2)))
  IN Transform(scale, tx, ty)

\* initial zoom to fit, over the x and y of graphData.nodes
ZoomToFit(g) ==
  fitTransform({g.nodes[i].x : i \in DOMAIN g.nodes}, {g.nodes[i].y : i \in DOMAIN g.nodes})

\* the script has written the page and exited
PyExited == [pc |-> "exited"]

\* the page as loaded, generated from one of the given graphs
Load(files) ==
  /\ py = PyExited
  /\ graphFile \in files
  /\ filterSubtopic = TRUE /\ filterAuthor = TRUE /\ filterOther = TRUE
  /\ yearFrom = GLOBAL_MIN_YEAR /\ yearTo = GLOBAL_MAX_YEAR
  /\ nodeHidden = {} /\ edgeHidden = {}
  /\ statVisible = Len(graphData.nodes)
  /\ selectedNodeId = NullId /\ neighborMode = FALSE
  /\ highlighted = {} /\ panel = PanelHint
  /\ dimmedNodes = {} /\ dimmedEdges = {}
  /\ nodePos = [id \in NodeIds(graphData) |->
                  [x |-> NodeOf(graphData, id).x, y |-> NodeOf(graphData, id).y]]
  /\ nodeTranslate = nodePos
  /\ edgeLines = DrawEdges(graphData, nodePos)
  /\ initTransform = ZoomToFit(graphData)
  /\ transform = initTransform
  /\ results = <<>> /\ resultsShown = FALSE
  /\ NoCopies

Init == Load(ClientGraphs)

\* ---------------------------------------------------------------- filters
\* d.type.toLowerCase().includes("subtopic") and ...includes("author"),
\* tabulated over the types the graphs use
typeTests ==
  [t \in {d.type : d \in Range(GraphA.nodes) \cup Range(GraphB.nodes) \cup Range(SearchGraph(0).nodes)}
     |-> [subtopic |-> includes(toLowerCase(t), STR_SUBTOPIC),
          author |-> includes(toLowerCase(t), STR_AUTHOR)]]

\* mutant: the year range compared strictly
show_strictYears(d, fSubtopic, fAuthor, fOther, yFrom, yTo) ==
  LET t == typeTests[d.type]
      typeOk == \/ fSubtopic /\ t.subtopic
                \/ fAuthor /\ t.author
                \/ fOther /\ ~t.subtopic /\ ~t.author
      yearOk == d.minYear = NoYear \/ (d.maxYear > yFrom /\ d.minYear < yTo)
  IN typeOk /\ yearOk

\* typeOk && yearOk of applyFilters, for node d under the given filter inputs
show(d, fSubtopic, fAuthor, fOther, yFrom, yTo) ==
  LET t == typeTests[d.type]
      typeOk == \/ fSubtopic /\ t.subtopic
                \/ fAuthor /\ t.author
                \/ fOther /\ ~t.subtopic /\ ~t.author
      yearOk == d.minYear = NoYear \/ (d.maxYear >= yFrom /\ d.minYear <= yTo)
  IN typeOk /\ yearOk

\* mutant: only the source of an edge is looked up in hiddenIds
hiddenEdges_sourceOnly(g, hiddenIds) ==
  {i \in EdgeIdx(g) : g.edges[i].source \in hiddenIds}

\* the edge lines applyFilters gives display "none"; hiddenIds holds the ids
\* of the nodes whose display is "none"
hiddenEdges(g, hiddenIds) ==
  {i \in EdgeIdx(g) :
     g.edges[i].source \in hiddenIds \/ g.edges[i].target \in hiddenIds}

\* applyFilters(), run after the handler has assigned the filter inputs
applyFilters ==
  LET shown == {i \in DOMAIN graphData.nodes :
                  show(graphData.nodes[i], filterSubtopic', filterAuthor',
                       filterOther', yearFrom', yearTo')}
  IN /\ nodeHidden' = {graphData.nodes[i].id : i \in (DOMAIN graphData.nodes) \ shown}
     /\ edgeHidden' = hiddenEdges(graphData, nodeHidden')
     /\ statVisible' = Cardinality(shown)

\* the document click listener: a click outside #searchbox hides the results
hideResults == resultsShown' = FALSE

ChkSubtopic ==
  /\ filterSubtopic' = ~filterSubtopic
  /\ UNCHANGED <<filterAuthor, filterOther, yearFrom, yearTo>>
  /\ applyFilters
  /\ hideResults
  /\ UNCHANGED <<py, copyVars, graphFile, selectVars, neighborMode, dimVars, posVars, transform,
                 initTransform, searchVars>>

ChkAuthor ==
  /\ filterAuthor' = ~filterAuthor
  /\ UNCHANGED <<filterSubtopic, filterOther, yearFrom, yearTo>>
  /\ applyFilters
  /\ hideResults
  /\ UNCHANGED <<py, copyVars, graphFile, selectVars, neighborMode, dimVars, posVars, transform,
                 initTransform, searchVars>>

ChkOther ==
  /\ filterOther' = ~filterOther
  /\ UNCHANGED <<filterSubtopic, filterAuthor, yearFrom, yearTo>>
  /\ applyFilters
  /\ hideResults
  /\ UNCHANGED <<py, copyVars, graphFile, selectVars, neighborMode, dimVars, posVars, transform,
                 initTransform, searchVars>>

\* the values a year handle is moved to: min..max of the range inputs, step 1
YearInputs ==
  LET lo == GLOBAL_MIN_YEAR
      hi == GLOBAL_MAX_YEAR
  IN {y \in lo..Min2(hi, lo + MaxYearSteps) : TRUE} \cup {hi}

\* mutant: the from handle moves without pushing the to handle
sliderFromInput_noClamp(v) ==
  /\ yearFrom' = v
  /\ yearTo' = yearTo

\* sliderFrom "input": yearFrom and yearTo after the handle is moved to v
sliderFromInput(v) ==
  /\ yearFrom' = v
  /\ yearTo' = IF v > yearTo THEN v ELSE yearTo

\* sliderTo "input"
sliderToInput(v) ==
  /\ yearTo' = v
  /\ yearFrom' = IF v < yearFrom THEN v ELSE yearFrom

SliderFrom(v) ==
  /\ v # yearFrom
  /\ sliderFromInput(v)
  /\ UNCHANGED <<filterSubtopic, filterAuthor, filterOther>>
  /\ applyFilters
  /\ UNCHANGED <<py, copyVars, graphFile, selectVars, neighborMode, dimVars, posVars, transform,
                 initTransform, searchVars, resultsShown>>

\* mutant: moving the to handle drops the dim overlay
SliderTo_clearDim(v) ==
  /\ v # yearTo
  /\ sliderToInput(v)
  /\ UNCHANGED <<filterSubtopic, filterAuthor, filterOther>>
  /\ applyFilters
  /\ dimmedNodes' = {} /\ dimmedEdges' = {}
  /\ UNCHANGED <<py, copyVars, graphFile, selectVars, neighborMode, posVars, transform,
                 initTransform, searchVars, resultsShown>>

SliderTo(v) ==
  /\ v # yearTo
  /\ sliderToInput(v)
  /\ UNCHANGED <<filterSubtopic, filterAuthor, filterOther>>
  /\ applyFilters
  /\ UNCHANGED <<py, copyVars, graphFile, selectVars, neighborMode, dimVars, posVars, transform,
                 initTransform, searchVars, resultsShown>>

\* ---------------------------------------- selection, highlight, dimming
\* nodeG.classed("dimmed", ...) of applyNeighborDim
neighborDimNodes(g, id) ==
  {n \in NodeIds(g) : n # id /\ n \notin adjSet(g, id)}

\* edgeLines.classed("dimmed", ...) of applyNeighborDim
neighborDimEdges(g, id) ==
  {i \in EdgeIdx(g) : g.edges[i].source # id /\ g.edges[i].target # id}

applyNeighborDim(id) ==
  /\ dimmedNodes' = neighborDimNodes(graphData, id)
  /\ dimmedEdges' = neighborDimEdges(graphData, id)

clearDim == dimmedNodes' = {} /\ dimmedEdges' = {}

\* highlightNode(id): clearHighlight, then the class on the nodes of that id
highlightNode(id) == highlighted' = {n \in NodeIds(graphData) : n = id}

clearHighlight == highlighted' = {}

showPanel(id) == panel' = id

\* mutant: a node click waits for the clipboard writes to settle
NodeClick_awaitWrite(id) ==
  /\ pendingWrites = <<>>
  /\ id \notin nodeHidden
  /\ selectedNodeId' = id
  /\ showPanel(id)
  /\ highlightNode(id)
  /\ IF neighborMode THEN applyNeighborDim(id) ELSE UNCHANGED dimVars
  /\ UNCHANGED <<py, copyVars, graphFile, filterVars, neighborMode, posVars, transform,
                 initTransform, searchVars, resultsShown>>

\* click on a g.node (an element with display none takes no pointer events);
\* stopPropagation keeps the click from the svg and document listeners
NodeClick(id) ==
  /\ id \notin nodeHidden
  /\ selectedNodeId' = id
  /\ showPanel(id)
  /\ highlightNode(id)
  /\ IF neighborMode THEN applyNeighborDim(id) ELSE UNCHANGED dimVars
  /\ UNCHANGED <<py, copyVars, graphFile, filterVars, neighborMode, posVars, transform,
                 initTransform, searchVars, resultsShown>>

\* mutant: the background click forgets the dim overlay
BackgroundClick_keepDim ==
  /\ panel' = PanelHint
  /\ clearHighlight
  /\ UNCHANGED dimVars
  /\ selectedNodeId' = NullId
  /\ hideResults
  /\ UNCHANGED <<py, copyVars, graphFile, filterVars, neighborMode, posVars, transform,
                 initTransform, searchVars>>

\* click on the svg background
BackgroundClick ==
  /\ panel' = PanelHint
  /\ clearHighlight
  /\ IF neighborMode THEN clearDim ELSE UNCHANGED dimVars
  /\ selectedNodeId' = NullId
  /\ hideResults
  /\ UNCHANGED <<py, copyVars, graphFile, filterVars, neighborMode, posVars, transform,
                 initTransform, searchVars>>

\* click on #btn-neighbors; `if (selectedNodeId)` is "not null": a node id is
\* never the empty string
BtnNeighbors ==
  /\ neighborMode' = ~neighborMode
  /\ IF ~neighborMode' THEN clearDim
     ELSE IF selectedNodeId # NullId THEN applyNeighborDim(selectedNodeId)
     ELSE UNCHANGED dimVars
  /\ hideResults
  /\ UNCHANGED <<py, copyVars, graphFile, filterVars, selectVars, posVars, transform,
                 initTransform, searchVars>>

\* a click elsewhere on the page, outside #searchbox and the svg
DocumentClick ==
  /\ resultsShown
  /\ hideResults
  /\ UNCHANGED <<py, copyVars, graphFile, filterVars, selectVars, neighborMode, dimVars, posVars,
                 transform, initTransform, searchVars>>

\* ------------------------------------------------------- drag and viewport
\* the dx, dy of one drag event
DragDeltas == {<<1, -1>>}

\* how far drags have moved the nodes from where the model put them
Dragged(pos) ==
  LET d[i \in 0..Len(graphData.nodes)] ==
        IF i = 0 THEN 0
        ELSE d[i - 1] + Abs(pos[graphData.nodes[i].id].x - graphData.nodes[i].x)
  IN d[Len(graphData.nodes)]

\* nodePos after nodePos[id].x += dx; nodePos[id].y += dy
dragPos(pos, id, dx, dy) ==
  [pos EXCEPT ![id] = [x |-> pos[id].x + dx, y |-> pos[id].y + dy]]

\* mutant: only the lines that start at the dragged node follow it
dragEdges_sourceOnly(g, lines, id, p) ==
  [i \in EdgeIdx(g) |->
     [x1 |-> IF g.edges[i].source = id THEN p.x ELSE lines[i].x1,
      y1 |-> IF g.edges[i].source = id THEN p.y ELSE lines[i].y1,
      x2 |-> lines[i].x2,
      y2 |-> lines[i].y2]]

\* the edge lines after the drag handler rewrote the ends that name id
dragEdges(g, lines, id, p) ==
  [i \in EdgeIdx(g) |->
     [x1 |-> IF g.edges[i].source = id THEN p.x ELSE lines[i].x1,
      y1 |-> IF g.edges[i].source = id THEN p.y ELSE lines[i].y1,
      x2 |-> IF g.edges[i].target = id THEN p.x ELSE lines[i].x2,
      y2 |-> IF g.edges[i].target = id THEN p.y ELSE lines[i].y2]]

\* one "drag" event of d3.drag on a g.node
Drag(id, dx, dy) ==
  /\ id \notin nodeHidden
  /\ Dragged(dragPos(nodePos, id, dx, dy)) <= MaxDrag
  /\ nodePos' = dragPos(nodePos, id, dx, dy)
  /\ nodeTranslate' = [nodeTranslate EXCEPT ![id] = nodePos'[id]]
  /\ edgeLines' = dragEdges(graphData, edgeLines, id, nodePos'[id])
  /\ UNCHANGED <<py, copyVars, graphFile, filterVars, selectVars, neighborMode, dimVars, transform,
                 initTransform, searchVars, resultsShown>>

\* transforms a pan or wheel gesture of d3.zoom leaves (scaleExtent [0.05, 8])
GestureTransforms == {Transform(<<8, 1>>, Num(-10), Num(5))}

\* the "zoom" listener after a pan or wheel gesture on the svg
Zoom(t) ==
  /\ transform # t
  /\ transform' = t
  /\ UNCHANGED <<py, copyVars, graphFile, filterVars, selectVars, neighborMode, dimVars, posVars,
                 initTransform, searchVars, resultsShown>>

\* mutant: reset fits the viewport to the nodes where they are now
BtnReset_refit ==
  /\ transform' = fitTransform({nodePos[id].x : id \in DOMAIN nodePos},
                               {nodePos[id].y : id \in DOMAIN nodePos})
  /\ hideResults
  /\ UNCHANGED <<py, copyVars, graphFile, filterVars, selectVars, neighborMode, dimVars, posVars,
                 initTransform, searchVars>>

\* click on #btn-reset; the 600 ms transition is taken to its end, where d3
\* sets the target transform itself
BtnReset ==
  /\ transform' = initTransform
  /\ hideResults
  /\ UNCHANGED <<py, copyVars, graphFile, filterVars, selectVars, neighborMode, dimVars, posVars,
                 initTransform, searchVars>>

\* the transform flyTo moves to: scale 2.5, the node at the viewport centre
flyTransform(p) ==
  LET scale == <<5, 2>>
      tx == Sub(Div(Num(InnerWidth), Num(2)), Mul(scale, Num(p.x)))
      ty == Sub(Div(Num(InnerHeight), Num(2)), Mul(scale, Num(p.y)))
  IN Transform(scale, tx, ty)

\* flyTo(nodeData), its transition taken to its end
flyTo(id) ==
  /\ transform' = flyTransform(nodePos[id])
  /\ showPanel(id)
  /\ highlightNode(id)
  /\ UNCHANGED <<selectedNodeId, dimVars>>

\* ------------------------------------------------------------------ search
\* the results array the input handler builds for the query q
searchResultsOf(g, q) ==
  LET hit(n) ==
        IF includes(toLowerCase(n.label), q)
        THEN <<[node |-> n.id, matchType |-> "node", snippet |-> <<>>]>>
        ELSE IF n.searchText # <<>> /\ includes(toLowerCase(n.searchText), q)
        THEN LET parts == split(n.searchText, SEARCH_SEP)
                 found == {i \in DOMAIN parts : includes(toLowerCase(parts[i]), q)}
                 matched == IF found = {} THEN <<>> ELSE parts[SetMin(found)]
             IN <<[node |-> n.id, matchType |-> "paper",
                   snippet |-> substring0(matched, SNIPPET_LEN)]>>
        ELSE <<>>
      r[i \in 0..Len(g.nodes)] ==
        IF i = 0 THEN <<>> ELSE r[i - 1] \o hit(g.nodes[i])
  IN r[Len(g.nodes)]

\* mutant: every result is offered
offered_uncapped(res) == res

\* the result items offered: results.slice(0, 30)
offered(res) == SubSeq(res, 1, Min2(MAX_RESULTS, Len(res)))

\* what is typed into the search box
Queries == {<<" ", "A">>, <<" ">>}

\* the "input" listener of the search box, the box holding v (the text of
\* the box itself is read nowhere else and is not kept)
SearchInput(v) ==
  /\ LET q == toLowerCase(trim(v)) IN
       IF q = <<>> THEN resultsShown' = FALSE /\ UNCHANGED results
       ELSE results' = searchResultsOf(graphData, q) /\ resultsShown' = TRUE
  /\ UNCHANGED <<py, copyVars, graphFile, filterVars, selectVars, neighborMode, dimVars, posVars,
                 transform, initTransform>>

\* click on the i-th result item
ResultClick(i) ==
  /\ resultsShown
  /\ i \in DOMAIN offered(results)
  /\ flyTo(results[i].node)
  /\ resultsShown' = FALSE
  /\ UNCHANGED <<py, copyVars, graphFile, filterVars, neighborMode, posVars, initTransform, results>>

\* ------------------------------------------------------------ specification
Next ==
  \/ ChkSubtopic
  \/ ChkAuthor
  \/ ChkOther
  \/ \E v \in YearInputs : SliderFrom(v)
  \/ \E v \in YearInputs : SliderTo(v)
  \/ \E id \in NodeIds(graphData) : NodeClick(id)
  \/ BackgroundClick
  \/ BtnNeighbors
  \/ DocumentClick
  \/ \E id \in NodeIds(graphData), d \in DragDeltas : Drag(id, d[1], d[2])
  \/ \E t \in GestureTransforms : Zoom(t)
  \/ BtnReset
  \/ \E v \in Queries : SearchInput(v)
  \/ \E i \in DOMAIN offered(results) : ResultClick(i)

Spec == Init /\ [][Next]_vars

\* The search box alone, over graphs with long citation entries.
SearchQueries ==
  {<<"a", "n">>, <<" ", "T", "A", " ">>, <<"n", " ", "|", " ", "b">>, <<"b", "o">>,
   <<"z">>, <<" ">>}

InitSearch == Load(SearchGraphs)

NextSearch == \E v \in SearchQueries : SearchInput(v)

SpecSearch == InitSearch /\ [][NextSearch]_vars

\* The search box and its result list, over graphs of many nodes.
ListQueries == {<<"a">>, <<"B", " ">>, <<"x">>, <<" ">>}

InitList == Load(ListGraphs)

NextList ==
  \/ \E v \in ListQueries : SearchInput(v)
  \/ \E i \in DOMAIN offered(results) : ResultClick(i)

SpecList == InitList /\ [][NextList]_vars

\* ------------------------------------------------------------ copy citation
\* the copy buttons of the citations of node d: one entry, with its button,
\* per part of the search text
copyButtons(d) ==
  IF d.searchText = <<>> THEN {} ELSE DOMAIN split(d.searchText, SEARCH_SEP)

\* the copy buttons the side panel holds
panelButtons ==
  IF panel = PanelHint THEN {} ELSE copyButtons(NodeOf(graphData, panel))

\* click on the k-th "Copy APA" button of the side panel: copyAPA(text)
\* starts the clipboard write and returns; the button is outside the svg and
\* outside #searchbox, so only the document click listener sees the click
CopyClick(k) ==
  /\ k \in panelButtons
  /\ Len(pendingWrites) + toastTimers < MaxCopies
  /\ pendingWrites' = Append(pendingWrites, [node |-> panel, entry |-> k])
  /\ hideResults
  /\ UNCHANGED <<clipboardText, toastShown, toastTimers>>
  /\ UNCHANGED <<py, graphFile, filterVars, selectVars, neighborMode, dimVars, posVars,
                 transform, initTransform, searchVars>>

\* a sequence without its i-th element
Without(s, i) == SubSeq(s, 1, i - 1) \o SubSeq(s, i + 1, Len(s))

\* the i-th pending write is fulfilled: the `then` callback shows the toast
\* and starts its timer
ClipboardResolve(i) ==
  /\ i \in DOMAIN pendingWrites
  /\ clipboardText' = pendingWrites[i]
  /\ pendingWrites' = Without(pendingWrites, i)
  /\ toastShown' = TRUE
  /\ toastTimers' = toastTimers + 1
  /\ UNCHANGED <<py, graphFile, filterVars, selectVars, neighborMode, dimVars, posVars,
                 transform, initTransform, searchVars, resultsShown>>

\* the i-th pending write is rejected: no callback is registered for that
ClipboardReject(i) ==
  /\ i \in DOMAIN pendingWrites
  /\ pendingWrites' = Without(pendingWrites, i)
  /\ UNCHANGED <<clipboardText, toastShown, toastTimers>>
  /\ UNCHANGED <<py, graphFile, filterVars, selectVars, neighborMode, dimVars, posVars,
                 transform, initTransform, searchVars, resultsShown>>

\* a timer of the toast fires
ToastTimeout ==
  /\ toastTimers > 0
  /\ toastShown' = FALSE
  /\ toastTimers' = toastTimers - 1
  /\ UNCHANGED <<pendingWrites, clipboardText>>
  /\ UNCHANGED <<py, graphFile, filterVars, selectVars, neighborMode, dimVars, posVars,
                 transform, initTransform, searchVars, resultsShown>>

\* The page with its copy buttons, over a graph with a cited node.
CopyGraphs == {[name |-> "B", pad |-> 0]}

InitCopy == Load(CopyGraphs)

NextCopy ==
  \/ Next
  \/ \E k \in panelButtons : CopyClick(k)
  \/ \E i \in DOMAIN pendingWrites : ClipboardResolve(i)
  \/ \E i \in DOMAIN pendingWrites : ClipboardReject(i)
  \/ ToastTimeout

SpecCopy == InitCopy /\ [][NextCopy]_vars

\* The viewport alone, over graphs of one to MaxFitNodes nodes on a small
\* grid, nodes at one position included.
FitCoords == {0, 1}

FitGraphs ==
  {[name |-> "F", pad |-> Len(ps), at |-> ps] :
     ps \in UNION {[1..n -> FitCoords \X FitCoords] : n \in 1..MaxFitNodes}}

InitFit == Load(FitGraphs)

NextFit ==
  \/ \E t \in GestureTransforms : Zoom(t)
  \/ BtnReset
  \/ \E id \in NodeIds(graphData), d \in DragDeltas : Drag(id, d[1], d[2])

SpecFit == InitFit /\ [][NextFit]_vars

\* ------------------------------------------------- the script: helpers
\* Python values: None, a str (text), a float (num, an exact rational)
None == [type |-> "NoneType", text |-> <<>>, num |-> <<0, 1>>]
Str(s) == [type |-> "str", text |-> s, num |-> <<0, 1>>]
Float(r) == [type |-> "float", text |-> <<>>, num |-> r]

\* the truth value of v in `if v`, `v or w`, `v and w`
truthy(v) ==
  CASE v.type = "str" -> v.text # <<>>
    [] v.type = "float" -> v.num[1] # 0
    [] v.type = "tuple" -> TRUE
    [] OTHER -> FALSE

DigitChars == <<"0", "1", "2", "3", "4", "5", "6", "7", "8", "9">>
IsDigit(c) == \E d \in 1..10 : DigitChars[d] = c
DigitVal(c) == (CHOOSE d \in 1..10 : DigitChars[d] = c) - 1

\* the decimal digits of the natural number n, and back
RECURSIVE NatStr(_)
NatStr(n) ==
  IF n < 10 THEN <<DigitChars[n + 1]>>
  ELSE NatStr(n \div 10) \o <<DigitChars[(n % 10) + 1]>>

RECURSIVE NatVal(_)
NatVal(s) ==
  IF s = <<>> THEN 0
  ELSE NatVal(SubSeq(s, 1, Len(s) - 1)) * 10 + DigitVal(s[Len(s)])

RECURSIVE Pow10(_)
Pow10(k) == IF k = 0 THEN 1 ELSE 10 * Pow10(k - 1)

\* white space of str.strip() and of \s
IsSpace(c) == c \in {" ", "\n", "\t"}

RECURSIVE strip(_)
strip(s) ==
  IF s = <<>> THEN s
  ELSE IF IsSpace(Head(s)) THEN strip(Tail(s))
  ELSE IF IsSpace(s[Len(s)]) THEN strip(SubSeq(s, 1, Len(s) - 1))
  ELSE s

\* str.replace(old, new), old not empty
RECURSIVE replace(_, _, _)
replace(s, old, new) ==
  LET i == IndexOf(s, old) IN
  IF i = 0 THEN s
  ELSE SubSeq(s, 1, i - 1) \o new \o replace(SubSeq(s, i + Len(old), Len(s)), old, new)

\* repr of a float that is a whole number of tenths: "0.0", "-5.0", "1.5"
floatRepr(r) ==
  LET tenths == (Abs(r[1]) * 10) \div r[2] IN
  (IF r[1] < 0 THEN <<"-">> ELSE <<>>)
    \o NatStr(tenths \div 10) \o <<".">> \o NatStr(tenths % 10)

\* str(v)
str(v) ==
  CASE v.type = "str" -> v.text
    [] v.type = "float" -> floatRepr(v.num)
    [] OTHER -> <<"N", "o", "n", "e">>

\* float(s): an optional sign, digits with at most one point among them
\* (exponents, inf and nan are forms the inputs do not use)
floatBody(s) == IF s # <<>> /\ Head(s) \in {"+", "-"} THEN Tail(s) ELSE s

floatOk(s) ==
  LET b == floatBody(s)
      dots == {i \in DOMAIN b : b[i] = "."}
  IN /\ Cardinality(dots) <= 1
     /\ \A i \in (DOMAIN b) \ dots : IsDigit(b[i])
     /\ (DOMAIN b) \ dots # {}

floatOf(s) ==
  LET b == floatBody(s)
      dots == {i \in DOMAIN b : b[i] = "."}
      dot == IF dots = {} THEN Len(b) + 1 ELSE SetMin(dots)
      whole == SubSeq(b, 1, dot - 1)
      frac == SubSeq(b, dot + 1, Len(b))
      r == Norm(NatVal(whole \o frac), Pow10(Len(frac)))
  IN IF Head(s) = "-" THEN Neg(r) ELSE r

\* float(t) of the text t, or None where float raises
floatOrNone(t) ==
  IF t = <<>> THEN None
  ELSE IF floatOk(t) THEN Float(floatOf(t))
  ELSE None

_as_float(v) ==
  IF v.type = "NoneType" THEN None
  ELSE floatOrNone(replace(strip(str(v)), <<",">>, <<".">>))

\* An attribute bag is a dict: a sequence of [key, value] in insertion order,
\* the keys distinct.
Item(k, v) == [key |-> k, value |-> v]

\* attrs.get(k)
get(attrs, k) ==
  IF \E i \in DOMAIN attrs : attrs[i].key = k
  THEN attrs[CHOOSE i \in DOMAIN attrs : attrs[i].key = k].value
  ELSE None

\* k.lower() on the keys the aliases and the bags use
lowerKey(k) ==
  CASE k \in {"Label", "LABEL"} -> "label"
    [] k \in {"Name", "NAME"} -> "name"
    [] k \in {"Type", "TYPE", "tYpe"} -> "type"
    [] k \in {"Category", "CATEGORY"} -> "category"
    [] k \in {"SizeGephi", "SIZEGEPHI"} -> "sizegephi"
    [] k \in {"Size", "SIZE"} -> "size"
    [] k \in {"Bibtex", "BIBTEX", "BibTeX"} -> "bibtex"
    [] k = "X" -> "x"
    [] k = "Y" -> "y"
    [] OTHER -> k

\* {k.lower(): k for k in attrs}: of the keys that lower alike the last wins
lower_keys(attrs) ==
  [l \in {lowerKey(attrs[i].key) : i \in DOMAIN attrs} |->
     attrs[SetMax({i \in DOMAIN attrs : lowerKey(attrs[i].key) = l})].key]

ATTR_SIZE == <<"SizeGephi", "size", "Size", "viz:size", "viz_size">>
ATTR_LABEL == <<"label", "Label", "name", "Name">>
ATTR_TYPE == <<"type", "Type", "node_type", "category">>
ATTR_BIBTEX == <<"bibtex", "Bibtex", "BIBTEX">>

pick_attr(attrs, candidates) ==
  LET exact == {j \in DOMAIN candidates : truthy(get(attrs, candidates[j]))}
      lk == lower_keys(attrs)
      folded == {j \in DOMAIN candidates : lowerKey(candidates[j]) \in DOMAIN lk}
  IN IF exact # {} THEN get(attrs, candidates[SetMin(exact)])
     ELSE IF folded # {} THEN get(attrs, lk[lowerKey(candidates[SetMin(folded)])])
     ELSE None

\* the key pairs extract_xy tries, in order
XY_PAIRS ==
  << <<"x", "y">>, <<"X", "Y">>, <<"viz:position.x", "viz:position.y">>,
     <<"pos_x", "pos_y">> >>

\* a 2-tuple
Tuple(a, b) == [type |-> "tuple", first |-> a, second |-> b]

extract_xy(attrs) ==
  LET hits == {j \in DOMAIN XY_PAIRS :
                 truthy(get(attrs, XY_PAIRS[j][1])) /\ truthy(get(attrs, XY_PAIRS[j][2]))}
  IN IF hits = {} THEN None
     ELSE Tuple(_as_float(get(attrs, XY_PAIRS[SetMin(hits)][1])),
                _as_float(get(attrs, XY_PAIRS[SetMin(hits)][2])))

\* ------------------------------------------ the script: citation parser
\* Markup and punctuation the script writes as one literal are one element
\* of a text; what comes from the graph file is one element per character.

\* re.sub(r'\s+', ' ', text)
RECURSIVE collapseSpace(_)
collapseSpace(s) ==
  IF s = <<>> THEN s
  ELSE IF IsSpace(Head(s))
  THEN LET rest == {j \in 1..(Len(s) + 1) :
                      /\ \A k \in 1..(j - 1) : IsSpace(s[k])
                      /\ (j = Len(s) + 1 \/ ~IsSpace(s[j]))}
       IN <<" ">> \o collapseSpace(SubSeq(s, SetMin(rest), Len(s)))
  ELSE <<Head(s)>> \o collapseSpace(Tail(s))

clean_tex(text) ==
  IF text = <<>> THEN <<>>
  ELSE strip(collapseSpace(SelectSeq(text, LAMBDA c : c \notin {"{", "}"})))

\* the first position from i on that holds no white space
skipSpace(s, i) ==
  SetMin({j \in i..(Len(s) + 1) : j = Len(s) + 1 \/ ~IsSpace(s[j])})

\* [{"](.*?)(?<!\\)[}"] at position open of s: the bounds of group 1
groupAt(s, open) ==
  IF ~(open <= Len(s) /\ s[open] \in {"{", "\""}) THEN <<>>
  ELSE LET close == {j \in (open + 1)..Len(s) :
                       s[j] \in {"}", "\""} /\ s[j - 1] # "\\"}
       IN IF close = {} THEN <<>> ELSE <<open + 1, SetMin(close) - 1>>

\* =\s* at position eq of s, then the group
equalsAt(s, eq) ==
  IF ~(eq <= Len(s) /\ s[eq] = "=") THEN <<>>
  ELSE groupAt(s, skipSpace(s, eq + 1))

\* where group 1 of key\s*=\s*[{"](.*?)(?<!\\)[}"] lies when the pattern
\* matches at position i of s, ignoring case: <<from, to>>, or <<>>
fieldMatchAt(s, key, i) ==
  IF ~(/\ i + Len(key) - 1 <= Len(s)
       /\ LowerChar(s[i]) = key[1]
       /\ toLowerCase(SubSeq(s, i, i + Len(key) - 1)) = key)
  THEN <<>>
  ELSE equalsAt(s, skipSpace(s, i + Len(key)))

\* group 1 of the leftmost of the matches group[i], as <<text>>
leftmost(s, group) ==
  LET at == {i \in DOMAIN s : group[i] # <<>>}
  IN IF at = {} THEN <<>>
     ELSE <<SubSeq(s, group[SetMin(at)][1], group[SetMin(at)][2])>>

\* re.search: group 1 of the leftmost match, as <<text>>, or <<>> for no match
fieldSearch(s, key) ==
  leftmost(s, [i \in DOMAIN s |-> fieldMatchAt(s, key, i)])

\* `if match: return clean_tex(match.group(1))` for the first key, else ""
firstFound(found) ==
  LET matched == {k \in DOMAIN found : found[k] # <<>>}
  IN IF matched = {} THEN <<>>
     ELSE clean_tex(found[SetMin(matched)][1])

\* get_field(entry_str, keys): the first key whose pattern matches decides
get_field(entry_str, keys) ==
  firstFound([k \in DOMAIN keys |-> fieldSearch(entry_str, keys[k])])

\* the field names get_field is asked for
KEY ==
  [author |-> <<"a", "u", "t", "h", "o", "r">>,
   year |-> <<"y", "e", "a", "r">>,
   date |-> <<"d", "a", "t", "e">>,
   title |-> <<"t", "i", "t", "l", "e">>,
   journal |-> <<"j", "o", "u", "r", "n", "a", "l">>,
   booktitle |-> <<"b", "o", "o", "k", "t", "i", "t", "l", "e">>,
   series |-> <<"s", "e", "r", "i", "e", "s">>,
   volume |-> <<"v", "o", "l", "u", "m", "e">>,
   number |-> <<"n", "u", "m", "b", "e", "r">>,
   pages |-> <<"p", "a", "g", "e", "s">>,
   doi |-> <<"d", "o", "i">>]
DOI_PREFIX ==
  <<"h", "t", "t", "p", "s", ":", "/", "/", "d", "o", "i", ".", "o", "r", "g", "/">>
ENTRY_SEP == <<" ", "|", "|", " ">>

\* int(s): white space around, an optional sign, digits, single underscores
\* between digits
intBody(s) ==
  LET t == strip(s) IN
  IF t # <<>> /\ Head(t) \in {"+", "-"} THEN Tail(t) ELSE t

intOk(s) ==
  LET b == intBody(s) IN
  /\ b # <<>>
  /\ \A i \in DOMAIN b : IsDigit(b[i]) \/ b[i] = "_"
  /\ IsDigit(b[1]) /\ IsDigit(b[Len(b)])
  /\ \A i \in 1..(Len(b) - 1) : ~(b[i] = "_" /\ b[i + 1] = "_")

intOf(s) ==
  LET n == NatVal(SelectSeq(intBody(s), IsDigit)) IN
  IF Head(strip(s)) = "-" THEN -n ELSE n

\* the keys each field of an entry is looked up under, in order
FIELD_KEYS ==
  [author |-> <<KEY.author>>,
   year |-> <<KEY.year, KEY.date>>,
   title |-> <<KEY.title>>,
   journal |-> <<KEY.journal, KEY.booktitle, KEY.series>>,
   volume |-> <<KEY.volume>>,
   issue |-> <<KEY.number>>,
   pages |-> <<KEY.pages>>,
   doi |-> <<KEY.doi>>]

\* the fields get_field reads from one entry
entryFields(entry) ==
  [field \in DOMAIN FIELD_KEYS |-> get_field(entry, FIELD_KEYS[field])]

\* `plain` of one entry
plainOf(f) ==
  f.author \o <<" (">> \o f.year \o <<"). ">> \o f.title \o <<". ">> \o f.journal
    \o (IF f.volume # <<>> THEN <<", ">> \o f.volume ELSE <<>>)
    \o (IF f.issue # <<>> THEN <<"(">> \o f.issue \o <<")">> ELSE <<>>)
    \o (IF f.pages # <<>> THEN <<", ">> \o f.pages ELSE <<>>)
    \o (IF f.doi # <<>>
        THEN <<". https://doi.org/">> \o replace(f.doi, DOI_PREFIX, <<>>)
        ELSE <<>>)

\* `citation` of one entry, before it is wrapped with its button
citationOf(f) ==
  LET link == <<"https://doi.org/">> \o replace(f.doi, DOI_PREFIX, <<>>) IN
  <<"<span class='apa-author'>">> \o f.author \o <<"</span>">>
    \o (IF f.year # <<>> THEN <<" (">> \o f.year \o <<")">> ELSE <<>>)
    \o <<". ">>
    \o (IF f.title # <<>>
        THEN <<"<span class='apa-title'>">> \o f.title \o <<"</span>. ">>
        ELSE <<>>)
    \o (IF f.journal # <<>>
        THEN <<"<i class='apa-journal'>">> \o f.journal \o <<"</i>">>
               \o (IF f.volume # <<>> THEN <<", <i>">> \o f.volume \o <<"</i>">> ELSE <<>>)
               \o (IF f.issue # <<>> THEN <<"(">> \o f.issue \o <<")">> ELSE <<>>)
               \o (IF f.pages # <<>> THEN <<", ">> \o f.pages ELSE <<>>)
               \o <<". ">>
        ELSE <<>>)
    \o (IF f.doi # <<>>
        THEN <<" <a href='">> \o link \o <<"' target='_blank' class='apa-doi'>">>
               \o link \o <<"</a>">>
        ELSE <<>>)

ENTRY_OPEN == "<div class='apa-entry'>"
BUTTON_OPEN == "<button class='copy-btn' onclick=\"copyAPA('"
BUTTON_CLOSE == "')\">Copy APA</button></div>"

\* mutant: a year is kept whenever it is not 0
keepYear_anySign(y) == y # 0

\* `if y > 0`
keepYear(y) == y > 0

\* `y = int(year[:4])` and the append, nothing where int raises
yearOfHead(head) ==
  IF intOk(head) /\ keepYear(intOf(head)) THEN <<intOf(head)>> ELSE <<>>

\* what the field year adds to years
yearsOf(year) ==
  IF year = <<>> THEN <<>>
  ELSE yearOfHead(SubSeq(year, 1, Min2(4, Len(year))))

\* what an entry with the fields f adds to html_output, search_texts, years
entryOutput(f) ==
  [html |-> <<ENTRY_OPEN>> \o citationOf(f) \o <<BUTTON_OPEN>>
              \o replace(replace(plainOf(f), <<"'">>, <<"\\", "'">>), <<"\n">>, <<" ">>)
              \o <<BUTTON_CLOSE>>,
   search |-> f.author \o <<" ">> \o f.year \o <<" ">> \o f.title \o <<" ">> \o f.journal,
   years |-> yearsOf(f.year)]

\* what one entry that is not blank adds to html_output, search_texts, years
apaEntry(entry) == entryOutput(entryFields(entry))

\* html_output, the joined search_texts and years after one more entry
addEntry(acc, e, first) ==
  [html |-> acc.html \o e.html,
   search |-> IF first THEN e.search ELSE acc.search \o SEARCH_SEP \o e.search,
   years |-> acc.years \o e.years]

\* `for entry in entries`, over the entries that are not blank
RECURSIVE apaEntries(_)
apaEntries(kept) ==
  IF kept = <<>> THEN [html |-> <<>>, search |-> <<>>, years |-> <<>>]
  ELSE addEntry(apaEntries(SubSeq(kept, 1, Len(kept) - 1)),
                apaEntry(kept[Len(kept)]), Len(kept) = 1)

\* mutant: only the lower-case word none stands for no citation
format_apa_html_exactNone(raw_bibtex) ==
  IF ~truthy(raw_bibtex) \/ str(raw_bibtex) = <<"n", "o", "n", "e">>
  THEN [html |-> <<>>, search |-> <<>>, years |-> <<>>]
  ELSE apaEntries(SelectSeq(split(str(raw_bibtex), ENTRY_SEP),
                            LAMBDA e : strip(e) # <<>>))

\* format_apa_html(raw_bibtex): (html_output, " | ".join(search_texts), years)
format_apa_html(raw_bibtex) ==
  IF ~truthy(raw_bibtex) \/ toLowerCase(str(raw_bibtex)) = <<"n", "o", "n", "e">>
  THEN [html |-> <<>>, search |-> <<>>, years |-> <<>>]
  ELSE apaEntries(SelectSeq(split(str(raw_bibtex), ENTRY_SEP),
                            LAMBDA e : strip(e) # <<>>))

\* ------------------------------------------------ the script: graph files
\* key = {value}, as a citation entry writes a field
Field(key, value) == key \o <<"=", "{">> \o value \o <<"}">>

RECURSIVE Joined(_, _)
Joined(parts, sep) ==
  IF parts = <<>> THEN <<>>
  ELSE IF Len(parts) = 1 THEN parts[1]
  ELSE parts[1] \o sep \o Joined(Tail(parts), sep)

\* an entry with author A, year 2020, title T and, as asked for, journal J,
\* volume 7, number 3, pages 9, doi d
FullEntry(j, v, n, p, d) ==
  Joined(<<Field(KEY.author, <<"A">>), Field(KEY.year, <<"2", "0", "2", "0">>),
           Field(KEY.title, <<"T">>)>>
           \o (IF j THEN <<Field(KEY.journal, <<"J">>)>> ELSE <<>>)
           \o (IF v THEN <<Field(KEY.volume, <<"7">>)>> ELSE <<>>)
           \o (IF n THEN <<Field(KEY.number, <<"3">>)>> ELSE <<>>)
           \o (IF p THEN <<Field(KEY.pages, <<"9">>)>> ELSE <<>>)
           \o (IF d THEN <<Field(KEY.doi, <<"d">>)>> ELSE <<>>),
         <<",", " ">>)

\* the texts a year field holds
YearTexts ==
  {<<"2", "0", "2", "0">>, <<"a", "b", "c", "d">>, <<"0", "0", "0", "0">>, <<"-", "5">>, <<"2", "0">>, <<"2", "0", "2", "1", "a">>, <<"1", "2", "3", "4", "5">>, <<" ", "7", " ">>, <<"1", "_", "0">>, <<"2", ".", "5">>}

\* citation blobs: one entry with every combination of journal, volume,
\* number, pages and doi; one entry with each year text, as year or as date
\* or as date behind an empty year; blobs of several entries
BibBlobs ==
  {FullEntry(j, v, n, p, d) : j \in BOOLEAN, v \in BOOLEAN, n \in BOOLEAN, p \in BOOLEAN, d \in BOOLEAN}
    \cup {Field(KEY.year, y) : y \in YearTexts}
    \cup {Field(KEY.date, y) : y \in YearTexts}
    \cup {Field(KEY.year, <<>>) \o <<",">> \o Field(KEY.date, y) : y \in YearTexts}
    \cup {Joined(<<Field(KEY.year, y), Field(KEY.title, <<"T">>) \o Field(KEY.year, <<"1", "9", "9", "9">>),
                   <<" ">>, Field(KEY.year, <<"2", "0", "0", "1">>)>>, ENTRY_SEP) : y \in YearTexts}
    \cup {Field(KEY.doi, DOI_PREFIX \o <<"d">>), Field(KEY.title, <<"i", "t", "'", "s">>)}

\* blobs without a citation: empty, the word none, blank entries only
EmptyBlobs ==
  {<<>>, <<"n", "o", "n", "e">>, <<"N", "o", "n", "e">>, <<"N", "O", "N", "E">>, <<" ", "|", "|", " ">>, <<" ", " ">>, <<" ", "|", "|", " ", " ", "|", "|", " ">>}

BibBags ==
  {<<Item("bibtex", Str(b))>> : b \in BibBlobs \cup EmptyBlobs}
    \cup {<<Item("Bibtex", Str(<<>>)), Item("BibTeX", Str(Field(KEY.year, <<"1", "9", "9", "9">>)))>>,
          <<Item("BibTeX", Str(Field(KEY.year, <<"1", "9", "9", "9">>))), Item("Bibtex", Str(<<>>))>>,
          <<Item("BIBTEX", Str(<<"n", "o", "n", "e">>)), Item("bibtex", Str(Field(KEY.year, <<"1", "9", "9", "9">>)))>>}

\* bags for the label and type aliases
TypeBags ==
  {<<Item("Type", Str(<<>>)), Item("CATEGORY", Str(<<"v">>))>>,
   <<Item("Category", Str(<<"x">>))>>,
   <<Item("type", Str(<<"t">>)), Item("Type", Str(<<"u">>))>>,
   <<Item("Type", Str(<<"u">>)), Item("type", Str(<<"t">>))>>,
   <<Item("TYPE", Str(<<"a">>)), Item("tYpe", Str(<<>>))>>,
   <<Item("category", Str(<<"c">>)), Item("node_type", Str(<<"n">>))>>,
   <<Item("Label", Str(<<>>)), Item("NAME", Str(<<"v">>))>>,
   <<Item("name", Str(<<"m">>)), Item("LABEL", Str(<<"l">>))>>,
   <<Item("type", Str(<<"a", "u", "t", "h", "o", "r", "-", "s", "u", "b", "t", "o", "p", "i", "c">>)), Item("label", Str(<<"L">>))>>}

\* bags for the size aliases
SizeBags ==
  {<<Item("SizeGephi", v)>> :
     v \in {Float(Num(0)), Float(Num(1)), Float(Num(10)), Float(Num(100)), Float(Num(-5)),
            Str(<<"a", "b", "c">>), Str(<<"2", ",", "5">>), Str(<<" ", "1", "0", "0">>),
            Str(<<>>)}}
    \cup {<<Item("size", Float(Num(0))), Item("viz_size", Float(Num(100)))>>,
          <<Item("SIZE", Float(Num(1)))>>}

\* the values a coordinate holds
CoordValues ==
  {Float(Num(0)), Float(<<3, 2>>), Float(Num(-2)), Str(<<"1", ",", "5">>),
   Str(<<"a", "b", "c">>)}

XYBags ==
  {<<Item("x", a), Item("y", b)>> : a \in CoordValues, b \in CoordValues}
    \cup {<<Item("x", a), Item("y", Float(Num(4))), Item("pos_x", Float(Num(7))),
            Item("pos_y", Float(Num(8)))>> : a \in CoordValues}
    \cup {<<Item("x", Float(Num(1))), Item("X", Float(Num(2))), Item("Y", Float(Num(3)))>>,
          <<Item("viz:position.x", Float(Num(5))), Item("viz:position.y", Float(Num(6))),
            Item("X", Float(Num(2))), Item("Y", Float(Num(3)))>>}

\* the attribute bags of the first node of a graph file
NodeBags == {<<>>} \cup TypeBags \cup SizeBags \cup XYBags \cup BibBags

\* the attribute bags of the nodes that follow it
TailBags ==
  {<<Item("x", Float(Num(1))), Item("y", Float(<<3, 2>>)),
     Item("bibtex", Str(Field(KEY.year, <<"1", "9", "9", "5">>)))>>,
   <<Item("label", Str(<<"L">>)), Item("size", Float(Num(1)))>>}

RECURSIVE SeqsUpTo(_, _)
SeqsUpTo(S, k) ==
  IF k = 0 THEN {<<>>}
  ELSE SeqsUpTo(S, k - 1) \cup {Append(t, b) : t \in SeqsUpTo(S, k - 1), b \in S}

\* G = nx.read_graphml(GRAPH_FILE): the nodes "1", "2", ... carry the given
\* bags; every node is joined to the next, and the first to itself
GraphFile(bags) ==
  [nodes |-> [i \in DOMAIN bags |-> [n |-> ToString(i), attrs |-> bags[i]]],
   edges |-> <<<<"1", "1">>>> \o [i \in 1..(Len(bags) - 1) |-> <<ToString(i), ToString(i + 1)>>]]

GraphFiles == {GraphFile(<<b>> \o t) : b \in NodeBags, t \in SeqsUpTo(TailBags, MaxTail)}

\* --------------------------------------------------- the script: build
COLOR_SUBTOPIC == "#3CB371"
COLOR_AUTHOR == "#FF7AA2"
COLOR_OTHER == "#9E9E9E"

\* max(0, raw_size)
clampSize(r) == IF r[1] < 0 THEN Num(0) ELSE r

\* (max(0, raw_size)**NODE_SIZE_POWER) * NODE_SIZE_MULT + NODE_SIZE_ADD in
\* millionths, rounded down, for the sizes the graph files use
radiusOf(raw_size) ==
  LET b == clampSize(raw_size) IN
  CASE b = Num(0) -> 1000000
    [] b = Num(1) -> 1800000
    [] b = <<5, 2>> -> 3093760
    [] b = Num(10) -> 9976147
    [] b = Num(100) -> 101714032

\* int(math.log1p(radius) * LABEL_SCALE * 10) for those radii
labelSizeOf(radius) ==
  CASE radius = 1000000 -> 2
    [] radius = 1800000 -> 3
    [] radius = 3093760 -> 4
    [] radius = 9976147 -> 8
    [] radius = 101714032 -> 16

\* max(MIN_FONT_SIZE, ...)
fontSizeOf(radius) ==
  IF labelSizeOf(radius) > MIN_FONT_SIZE THEN labelSizeOf(radius) ELSE MIN_FONT_SIZE

\* the module namespace when the graph file G has been read
PyStart(G) ==
  [pc |-> "nodes", G |-> G, nodes |-> <<>>, all_years |-> <<>>, edges |-> <<>>,
   raw_size |-> None, xy |-> None, raw_bib |-> None, years |-> <<>>,
   global_min_year |-> NoYear, global_max_year |-> NoYear]

\* no page exists while the script runs
NoPage ==
  /\ graphFile = [name |-> "none", pad |-> 0]
  /\ filterSubtopic = TRUE /\ filterAuthor = TRUE /\ filterOther = TRUE
  /\ yearFrom = NoYear /\ yearTo = NoYear
  /\ nodeHidden = {} /\ edgeHidden = {} /\ statVisible = 0
  /\ selectedNodeId = NullId /\ neighborMode = FALSE
  /\ highlighted = {} /\ panel = PanelHint
  /\ dimmedNodes = {} /\ dimmedEdges = {}
  /\ nodePos = <<>> /\ nodeTranslate = <<>> /\ edgeLines = <<>>
  /\ initTransform = Transform(Num(1), Num(0), Num(0))
  /\ transform = initTransform
  /\ results = <<>> /\ resultsShown = FALSE
  /\ NoCopies

pageVars == <<copyVars, graphFile, filterVars, selectVars, neighborMode, dimVars, posVars,
              transform, initTransform, searchVars, resultsShown>>

\* str(picked or default)
strOr(picked, default) == str(IF truthy(picked) THEN picked ELSE Str(default))

\* `_as_float(...) or 10.0`
sizeOr(size) == IF truthy(size) THEN size ELSE Float(Num(DEFAULT_SIZE))

\* the colour of a node of type ntype
colorOf(category) ==
  CASE category = "Subtopic" -> COLOR_SUBTOPIC
    [] category = "Author" -> COLOR_AUTHOR
    [] OTHER -> COLOR_OTHER

\* the dict appended to nodes
nodeDict(n, attrs, ntype, raw_size, xy, apa) ==
  [id |-> n,
   label |-> strOr(pick_attr(attrs, ATTR_LABEL), <<n>>),
   type |-> ntype,
   x |-> IF truthy(xy) THEN xy.first ELSE Float(Num(0)),
   y |-> IF truthy(xy) THEN Float(Neg(xy.second.num)) ELSE Float(Num(0)),
   radius |-> radiusOf(raw_size.num),
   fontSize |-> fontSizeOf(radiusOf(raw_size.num)),
   color |-> colorOf(colorCategory([type |-> ntype])),
   apa |-> apa.html,
   searchText |-> apa.search,
   minYear |-> IF apa.years # <<>> THEN SetMin(Range(apa.years)) ELSE NoYear,
   maxYear |-> IF apa.years # <<>> THEN SetMax(Range(apa.years)) ELSE NoYear]

\* the namespace after the body of the loop for a node whose citation is apa
nodeDone(p, this, raw_size, xy, raw_bib, apa) ==
  [p EXCEPT !.raw_size = raw_size, !.xy = xy, !.raw_bib = raw_bib,
            !.years = apa.years,
            !.all_years = @ \o apa.years,
            !.nodes = Append(@, nodeDict(this.n, this.attrs,
                                         strOr(pick_attr(this.attrs, ATTR_TYPE), <<>>),
                                         raw_size, xy, apa))]

\* the body of the loop once raw_size, xy and raw_bib are known: -xy[1]
\* raises a TypeError when xy[1] is None, and the script ends there
nodeBody(p, this, raw_size, xy, raw_bib) ==
  IF truthy(xy) /\ xy.second.type = "NoneType"
  THEN [p EXCEPT !.pc = "raised", !.raw_size = raw_size, !.xy = xy]
  ELSE nodeDone(p, this, raw_size, xy, raw_bib, format_apa_html(raw_bib))

\* one iteration of `for n, attrs in G.nodes(data=True)`
BuildNode ==
  /\ py.pc = "nodes"
  /\ Len(py.nodes) < Len(py.G.nodes)
  /\ py' = nodeBody(py, py.G.nodes[Len(py.nodes) + 1],
                    sizeOr(_as_float(pick_attr(py.G.nodes[Len(py.nodes) + 1].attrs,
                                               ATTR_SIZE))),
                    extract_xy(py.G.nodes[Len(py.nodes) + 1].attrs),
                    pick_attr(py.G.nodes[Len(py.nodes) + 1].attrs, ATTR_BIBTEX))
  /\ UNCHANGED pageVars

\* `for u, v in G.edges()`, after the last node
BuildEdges ==
  /\ py.pc = "nodes"
  /\ Len(py.nodes) = Len(py.G.nodes)
  /\ py' = [py EXCEPT !.pc = "globals",
                      !.edges = [i \in DOMAIN py.G.edges |->
                                   Edge(py.G.edges[i][1], py.G.edges[i][2])]]
  /\ UNCHANGED pageVars

\* mutant: the global bounds taken from the years of the last node
BuildGlobals_lastNode ==
  /\ py.pc = "globals"
  /\ py' = [py EXCEPT !.pc = "done",
                      !.global_min_year = IF py.years # <<>>
                                          THEN SetMin(Range(py.years))
                                          ELSE FALLBACK_MIN_YEAR,
                      !.global_max_year = IF py.years # <<>>
                                          THEN SetMax(Range(py.years))
                                          ELSE FALLBACK_MAX_YEAR]
  /\ UNCHANGED pageVars

\* global_min_year, global_max_year; the page is written from here on
BuildGlobals ==
  /\ py.pc = "globals"
  /\ py' = [py EXCEPT !.pc = "done",
                      !.global_min_year = IF py.all_years # <<>>
                                          THEN SetMin(Range(py.all_years))
                                          ELSE FALLBACK_MIN_YEAR,
                      !.global_max_year = IF py.all_years # <<>>
                                          THEN SetMax(Range(py.all_years))
                                          ELSE FALLBACK_MAX_YEAR]
  /\ UNCHANGED pageVars

InitBuild == (\E G \in GraphFiles : py = PyStart(G)) /\ NoPage

NextBuild == BuildNode \/ BuildEdges \/ BuildGlobals

SpecBuild == InitBuild /\ [][NextBuild]_vars

\* ------------------------------------------------------------------ claims
Nodes == Range(graphData.nodes)
AllFiltersOn == filterSubtopic /\ filterAuthor /\ filterOther
FullYearRange == yearFrom = GLOBAL_MIN_YEAR /\ yearTo = GLOBAL_MAX_YEAR
FilterInputs == <<filterSubtopic, filterAuthor, filterOther, yearFrom, yearTo>>

\* the type filter of a node's colour category
CategoryEnabled(d) ==
  CASE colorCategory(d) = "Subtopic" -> filterSubtopic
    [] colorCategory(d) = "Author" -> filterAuthor
    [] OTHER -> filterOther

InYearRange(d) ==
  d.minYear = NoYear \/ (d.maxYear >= yearFrom /\ d.minYear <= yearTo)

\* C1: in every state, a node is visible iff the type filter of its
\* colorCategory is enabled and it has no year range or its year range meets
\* [yearFrom, yearTo]; nodes whose type names both subtopic and author included.
C1_VisibleIffCategoryAndYears ==
  \A d \in Nodes : (d.id \notin nodeHidden) <=> (CategoryEnabled(d) /\ InYearRange(d))

EdgeRule ==
  \A i \in EdgeIdx(graphData) :
    (i \notin edgeHidden) <=>
      /\ graphData.edges[i].source \in NodeIds(graphData) \ nodeHidden
      /\ graphData.edges[i].target \in NodeIds(graphData) \ nodeHidden

\* C2: after every filter evaluation an edge is visible iff both its source
\* and its target are nodes of the model and visible; an edge with an endpoint
\* that is no node is not visible.
C2_EdgeVisibleIffEndpointsVisible ==
  [][FilterInputs' # FilterInputs => EdgeRule']_vars

\* the nodes joined to id by an edge, in either direction
JoinedTo(id) ==
  {n \in NodeIds(graphData) :
     \E i \in EdgeIdx(graphData) :
       \/ graphData.edges[i] = Edge(id, n)
       \/ graphData.edges[i] = Edge(n, id)}

\* C3: in every state, with neighborMode on and a node X selected the dimmed
\* nodes are all nodes but X and the nodes joined to X by an edge in either
\* direction, and the dimmed edges are those with neither end X; with
\* neighborMode off or nothing selected nothing is dimmed.
C3_DimOverlay ==
  IF neighborMode /\ selectedNodeId # NullId
  THEN /\ dimmedNodes = (NodeIds(graphData) \ {selectedNodeId}) \ JoinedTo(selectedNodeId)
       /\ dimmedEdges = {i \in EdgeIdx(graphData) :
                           selectedNodeId \notin {graphData.edges[i].source,
                                                  graphData.edges[i].target}}
  ELSE dimmedNodes = {} /\ dimmedEdges = {}

\* a node with a neighbour is selected in neighbour mode, a node that is not
\* its neighbour and an edge are dimmed, and a search result chosen since then
\* has moved the highlight to another node
C3_Witness ==
  /\ neighborMode /\ selectedNodeId # NullId
  /\ JoinedTo(selectedNodeId) # {}
  /\ dimmedNodes # {} /\ dimmedEdges # {}
  /\ highlighted # {} /\ highlighted # {selectedNodeId}
  /\ nodeHidden # {}

\* C4: choosing the search result of node n leaves selection, detail view,
\* highlight and dim overlay as a click on n would: selection n, detail view n,
\* n alone highlighted, and in neighbour mode the overlay computed for n.
C4_ResultClickAsNodeClick ==
  [][\A i \in DOMAIN offered(results) :
       ResultClick(i) =>
         LET n == results[i].node IN
         /\ selectedNodeId' = n
         /\ panel' = n
         /\ highlighted' = {n}
         /\ IF neighborMode
            THEN /\ dimmedNodes' = neighborDimNodes(graphData, n)
                 /\ dimmedEdges' = neighborDimEdges(graphData, n)
            ELSE UNCHANGED dimVars]_vars

\* C5: reset sets the viewport transform to the transform computed at load,
\* whatever pans, zooms, drags, fly-tos and filter events came before, and the
\* stored load-time transform is never reassigned.
C5_ResetRestoresLoadTransform ==
  /\ [][BtnReset => transform' = ZoomToFit(graphData)]_vars
  /\ [][initTransform' = initTransform]_vars
  /\ [](initTransform = ZoomToFit(graphData))

\* the viewport is at the load-time transform although a search result was
\* flown to since the last click on the background or on a node (a highlight
\* without a selection), a node was dragged and a filter is off: only reset
\* leads back there
C5_Witness ==
  /\ transform = ZoomToFit(graphData)
  /\ highlighted # {} /\ selectedNodeId = NullId
  /\ Dragged(nodePos) > 0
  /\ ~AllFiltersOn

\* C6: with all three type filters on and the full year range every node is
\* visible and the statistic is the number of nodes; and the statistic is
\* always the number of visible nodes.
C6_AllVisibleAndStatistic ==
  /\ (AllFiltersOn /\ FullYearRange) =>
       (nodeHidden = {} /\ statVisible = Len(graphData.nodes))
  /\ statVisible = Cardinality(NodeIds(graphData) \ nodeHidden)

\* all filters are on and the range is full, on a graph whose nodes have years
C6_Witness ==
  /\ AllFiltersOn /\ FullYearRange
  /\ AllYears(graphData) # {}
  /\ statVisible = Len(graphData.nodes)
  /\ selectedNodeId # NullId /\ neighborMode

IsAuthorId(id) ==
  id \in NodeIds(graphData) /\ colorCategory(NodeOf(graphData, id)) = "Author"
IsPlainId(id) ==
  id \in NodeIds(graphData) /\ colorCategory(NodeOf(graphData, id)) # "Author"

\* C7: from all filters on and the full year range, turning the author filter
\* off hides every Author node and every edge with an Author end, and leaves
\* every Subtopic and Other node, and every edge between such nodes, visible.
C7_AuthorFilterOff ==
  [][(AllFiltersOn /\ FullYearRange /\ ChkAuthor) =>
       /\ \A id \in NodeIds(graphData) : id \in nodeHidden' <=> IsAuthorId(id)
       /\ \A i \in EdgeIdx(graphData) :
            LET e == graphData.edges[i] IN
            /\ (IsAuthorId(e.source) \/ IsAuthorId(e.target)) => i \in edgeHidden'
            /\ (IsPlainId(e.source) /\ IsPlainId(e.target)) => i \notin edgeHidden']_vars

\* only the author filter is off, the range is full; an Author node and an
\* edge are hidden, a node whose type names both subtopic and author is shown
C7_Witness ==
  /\ filterSubtopic /\ ~filterAuthor /\ filterOther /\ FullYearRange
  /\ \E d \in Nodes : colorCategory(d) = "Author" /\ d.id \in nodeHidden
  /\ \E d \in Nodes : typeTests[d.type].author /\ d.id \notin nodeHidden
  /\ edgeHidden # {} /\ edgeHidden # EdgeIdx(graphData)

\* C8: the year handles stay ordered within the global bounds; a moved handle
\* takes the value asked for, and the other handle follows when it is crossed.
C8_YearHandles ==
  /\ [](GLOBAL_MIN_YEAR <= yearFrom /\ yearFrom <= yearTo /\ yearTo <= GLOBAL_MAX_YEAR)
  /\ [][\A v \in YearInputs :
          /\ SliderFrom(v) =>
               yearFrom' = v /\ yearTo' = (IF v > yearTo THEN v ELSE yearTo)
          /\ SliderTo(v) =>
               yearTo' = v /\ yearFrom' = (IF v < yearFrom THEN v ELSE yearFrom)]_vars

\* both handles have left their ends and meet inside the bounds
C8_Witness ==
  /\ yearFrom = yearTo
  /\ GLOBAL_MIN_YEAR < yearFrom /\ yearTo < GLOBAL_MAX_YEAR

\* C9: a click on the background clears selection, highlight and both dim
\* sets, and leaves the type filters, the year range, every visibility,
\* neighborMode and the viewport transform as they were, in neighbour mode or not.
C9_BackgroundClick ==
  [][BackgroundClick =>
       /\ selectedNodeId' = NullId /\ highlighted' = {}
       /\ dimmedNodes' = {} /\ dimmedEdges' = {}
       /\ UNCHANGED <<filterSubtopic, filterAuthor, filterOther, yearFrom, yearTo,
                      nodeHidden, edgeHidden, neighborMode, transform>>]_vars

\* the panel is back at its placeholder while the viewport is where a fly-to
\* put it (so the background was clicked after a search result was chosen),
\* in neighbour mode, with a filter off and a year handle moved
C9_Witness ==
  /\ panel = PanelHint /\ selectedNodeId = NullId /\ highlighted = {}
  /\ transform.k = <<5, 2>>
  /\ neighborMode /\ dimmedNodes = {}
  /\ ~filterAuthor /\ ~FullYearRange /\ nodeHidden # {}

ResultsAsClaimed(q, res) ==
  \A d \in Nodes :
    LET labelHit == includes(toLowerCase(d.label), q)
        textHit == includes(toLowerCase(d.searchText), q)
        of(kind) == {i \in DOMAIN res : res[i].node = d.id /\ res[i].matchType = kind}
    IN /\ (of("node") # {}) <=> labelHit
       /\ (of("paper") # {}) <=> (~labelHit /\ textHit)
       /\ \A i \in of("paper") : includes(toLowerCase(res[i].snippet), q)

\* C10: for a non-empty trimmed lower-cased query, a node is a "node" result
\* iff its lower-cased label contains the query; otherwise it is a "paper"
\* result iff its search text contains the query, and then the snippet contains
\* the query; a query matching nothing yields no result.
C10_SearchResults ==
  [][\A v \in SearchQueries :
       LET q == toLowerCase(trim(v)) IN
       (q # <<>> /\ SearchInput(v)) => ResultsAsClaimed(q, results')]_vars

\* the stored position of a node as the page was loaded
LoadPos(id) == [x |-> NodeOf(graphData, id).x, y |-> NodeOf(graphData, id).y]

\* C20: a drag step on node n moves n's stored position by the drag delta and
\* the ends, at n, of the edge lines whose source or target is n; every other
\* stored position, every other edge end, the viewport transform, the
\* load-time transform, selection, filters and dim sets stay as they were.
C20_DragFrame ==
  [][\A n \in NodeIds(graphData), d \in DragDeltas :
       Drag(n, d[1], d[2]) =>
         /\ nodePos'[n] = [x |-> nodePos[n].x + d[1], y |-> nodePos[n].y + d[2]]
         /\ \A m \in NodeIds(graphData) \ {n} : nodePos'[m] = nodePos[m]
         /\ \A i \in EdgeIdx(graphData) :
              LET e == graphData.edges[i] IN
              /\ IF e.source = n
                 THEN edgeLines'[i].x1 = nodePos'[n].x /\ edgeLines'[i].y1 = nodePos'[n].y
                 ELSE edgeLines'[i].x1 = edgeLines[i].x1 /\ edgeLines'[i].y1 = edgeLines[i].y1
              /\ IF e.target = n
                 THEN edgeLines'[i].x2 = nodePos'[n].x /\ edgeLines'[i].y2 = nodePos'[n].y
                 ELSE edgeLines'[i].x2 = edgeLines[i].x2 /\ edgeLines'[i].y2 = edgeLines[i].y2
         /\ UNCHANGED <<transform, initTransform, selectedNodeId, filterVars, dimVars>>]_vars

\* a node is away from where it was loaded, an edge line that ends at it has
\* followed it, an edge line that does not touch it is where it was, and a
\* selection, a dim overlay and a hidden node were there to be disturbed
C20_Witness ==
  \E n \in NodeIds(graphData) :
    /\ nodePos[n] # LoadPos(n)
    /\ \E i \in EdgeIdx(graphData) :
         /\ graphData.edges[i].target = n /\ graphData.edges[i].source # n
         /\ edgeLines[i].x2 = nodePos[n].x /\ edgeLines[i].y2 = nodePos[n].y
    /\ \E i \in EdgeIdx(graphData) :
         /\ n \notin {graphData.edges[i].source, graphData.edges[i].target}
         /\ edgeLines[i] = DrawEdges(graphData, [m \in NodeIds(graphData) |-> LoadPos(m)])[i]
    /\ selectedNodeId # NullId /\ dimmedNodes # {} /\ nodeHidden # {}

\* the positions, in node iteration order, of the nodes that match q
Matching(q) ==
  {i \in DOMAIN graphData.nodes :
     \/ includes(toLowerCase(graphData.nodes[i].label), q)
     \/ includes(toLowerCase(graphData.nodes[i].searchText), q)}

\* the j-th smallest member of the set S of positions
Nth(S, j) == CHOOSE i \in S : Cardinality({k \in S : k <= i}) = j

\* C19: the results of a query are the matching nodes in node iteration
\* order, the items offered are the first 30 of them at most, and choosing the
\* i-th item acts on the i-th matching node: detail view, highlight and
\* viewport go to that node.
C19_ResultOrderAndCap ==
  /\ [][\A v \in ListQueries :
          LET q == toLowerCase(trim(v)) IN
          (q # <<>> /\ SearchInput(v)) =>
            LET M == Matching(q) IN
            /\ Len(results') = Cardinality(M)
            /\ \A j \in DOMAIN results' :
                 results'[j].node = graphData.nodes[Nth(M, j)].id
            /\ Len(offered(results')) = Min2(MAX_RESULTS, Cardinality(M))
            /\ \A j \in DOMAIN offered(results') : offered(results')[j] = results'[j]]_vars
  /\ [][\A i \in 1..MaxListed :
          ResultClick(i) =>
            /\ i <= MAX_RESULTS
            /\ panel' = results[i].node
            /\ highlighted' = {results[i].node}
            /\ transform' = flyTransform(nodePos[results[i].node])]_vars

\* more than 30 nodes matched and the 30th item, the last one offered, was
\* chosen: the detail view shows the 30th matching node, which is not the
\* 30th node
C19_Witness ==
  /\ Len(results) > MAX_RESULTS
  /\ ~resultsShown
  /\ panel = results[MAX_RESULTS].node
  /\ panel # graphData.nodes[MAX_RESULTS].id
  /\ highlighted = {panel}
  /\ transform = flyTransform(nodePos[panel])

\* the attribute bag of the k-th node of the graph file
AttrsOf(k) == py.G.nodes[k].attrs

\* the nodes the loop has emitted so far
Emitted == DOMAIN py.nodes

\* a value that is there and is not the empty string
NonEmpty(v) == v.type # "NoneType" /\ v # Str(<<>>)

\* what the resolver may return for the bag and the aliases, as claimed: the
\* value of the first alias present, non-empty, under its exact key; failing
\* that, of the first alias present, non-empty, under a key that differs in
\* case only; failing that, None
Resolved(attrs, aliases) ==
  LET exact == {j \in DOMAIN aliases : NonEmpty(get(attrs, aliases[j]))}
      under(j) == {i \in DOMAIN attrs :
                     lowerKey(attrs[i].key) = lowerKey(aliases[j]) /\ NonEmpty(attrs[i].value)}
      folded == {j \in DOMAIN aliases : under(j) # {}}
  IN IF exact # {} THEN {get(attrs, aliases[SetMin(exact)])}
     ELSE IF folded # {} THEN {attrs[i].value : i \in under(SetMin(folded))}
     ELSE {None}

\* C11: pick_attr returns the value of the first alias present with a
\* non-empty value under its exact key, else of the first alias present with a
\* non-empty value under a key matching without regard to case, else None; an
\* empty string is never returned and never ends the scan.  Seen in what the
\* loop keeps of its calls: raw_bib, and the type and label of each node.
C11_AttributeResolver ==
  /\ (py.pc # "raised" /\ py.nodes # <<>>) =>
       py.raw_bib \in Resolved(AttrsOf(Len(py.nodes)), ATTR_BIBTEX)
  /\ \A k \in Emitted :
       /\ py.nodes[k].type \in
            {str(IF truthy(v) THEN v ELSE Str(<<>>)) : v \in Resolved(AttrsOf(k), ATTR_TYPE)}
       /\ py.nodes[k].label \in
            {str(IF truthy(v) THEN v ELSE Str(<<py.nodes[k].id>>)) :
               v \in Resolved(AttrsOf(k), ATTR_LABEL)}

\* the position claimed for a bag: of the first key pair with both values
\* numbers, x and minus y; the origin when there is no such pair
PositionAsClaimed(attrs) ==
  LET number(k) == _as_float(get(attrs, k))
      ok == {j \in DOMAIN XY_PAIRS :
               number(XY_PAIRS[j][1]).type = "float" /\ number(XY_PAIRS[j][2]).type = "float"}
  IN IF ok = {} THEN [x |-> Float(Num(0)), y |-> Float(Num(0))]
     ELSE [x |-> number(XY_PAIRS[SetMin(ok)][1]),
           y |-> Float(Neg(number(XY_PAIRS[SetMin(ok)][2]).num))]

\* C12: every emitted node is at (x, -y) of the first key pair, in the order
\* (x,y), (X,Y), (viz:position.x, viz:position.y), (pos_x, pos_y), whose two
\* values parse as numbers, decimal comma and the value 0 included; a pair
\* with a missing or unparsable value is passed over; with no such pair the
\* node is at (0, 0).
C12_NodePosition ==
  \A k \in Emitted :
    /\ py.nodes[k].x = PositionAsClaimed(AttrsOf(k)).x
    /\ py.nodes[k].y = PositionAsClaimed(AttrsOf(k)).y

\* C13: the build never raises; every node it emits is the record of the
\* input node at its place, with numbers for x and y; and when the loop is
\* over there is one record per input node.
C13_BuildTotal ==
  /\ py.pc # "raised"
  /\ \A k \in Emitted :
       /\ py.nodes[k].id = py.G.nodes[k].n
       /\ py.nodes[k].x.type = "float" /\ py.nodes[k].y.type = "float"
  /\ py.pc \in {"globals", "done"} => Len(py.nodes) = Len(py.G.nodes)

\* a < b and a <= b on rationals
Less(a, b) == a[1] * b[2] < b[1] * a[2]
LessEq(a, b) == a[1] * b[2] <= b[1] * a[2]

\* the raw size claimed for a bag: the size attribute when it parses as a
\* number, 0 and negative numbers included, else the default weight
SizeAsClaimed(attrs) ==
  LET f == _as_float(pick_attr(attrs, ATTR_SIZE)) IN
  IF f.type = "float" THEN f.num ELSE Num(DEFAULT_SIZE)

\* C14: over the nodes emitted, the radius does not decrease as the raw size
\* grows, 0 and negative sizes included, and grows strictly from size 0 to 10
\* to 100; the default weight stands in only for an absent or unparsable
\* size; the radius is positive; the font size is at least MIN_FONT_SIZE and
\* does not decrease as the radius grows.
C14_SizeModel ==
  /\ \A j \in Emitted, k \in Emitted :
       LET sj == SizeAsClaimed(AttrsOf(j))
           sk == SizeAsClaimed(AttrsOf(k))
       IN /\ LessEq(sj, sk) => py.nodes[j].radius <= py.nodes[k].radius
          /\ (sj = Num(0) /\ sk = Num(10)) => py.nodes[j].radius < py.nodes[k].radius
          /\ (sj = Num(10) /\ sk = Num(100)) => py.nodes[j].radius < py.nodes[k].radius
          /\ py.nodes[j].radius <= py.nodes[k].radius =>
               py.nodes[j].fontSize <= py.nodes[k].fontSize
  /\ \A k \in Emitted :
       /\ py.nodes[k].radius > 0
       /\ py.nodes[k].fontSize >= MIN_FONT_SIZE
  /\ (py.pc # "raised" /\ py.nodes # <<>>) =>
       py.raw_size.num = SizeAsClaimed(AttrsOf(Len(py.nodes)))

\* the loop has run for a node and emitted it: raw_bib and years are its
Processed == py.pc # "raised" /\ py.nodes # <<>>
Last == py.nodes[Len(py.nodes)]

\* the citation entries of a blob: its pieces between " || " that are not blank
EntriesOf(v) ==
  IF v.type # "str" \/ toLowerCase(v.text) = <<"n", "o", "n", "e">> THEN <<>>
  ELSE SelectSeq(split(v.text, ENTRY_SEP), LAMBDA e : strip(e) # <<>>)

\* the year an entry gives, as claimed: the first four characters of its
\* year field, when they parse as an integer above 0
YearAsClaimed(e) ==
  LET t == get_field(e, <<KEY.year, KEY.date>>)
      h == SubSeq(t, 1, Min2(4, Len(t)))
  IN IF intOk(h) /\ intOf(h) > 0 THEN <<intOf(h)>> ELSE <<>>

RECURSIVE YearsAsClaimed(_)
YearsAsClaimed(es) ==
  IF es = <<>> THEN <<>> ELSE YearAsClaimed(Head(es)) \o YearsAsClaimed(Tail(es))

\* C15: the years collected from a node's blob are, entry by entry in order,
\* the years whose first four characters parse as an integer above 0; an
\* entry with an empty, non-numeric or non-positive year gives no year but
\* still its citation fragment and its search-text segment, and the entries
\* after it are processed.
C15_YearsCollected ==
  Processed =>
    LET es == EntriesOf(py.raw_bib) IN
    /\ py.years = YearsAsClaimed(es)
    /\ Cardinality({i \in DOMAIN Last.apa : Last.apa[i] = ENTRY_OPEN}) = Len(es)
    /\ IF es = <<>> THEN Last.searchText = <<>>
       ELSE Len(split(Last.searchText, SEARCH_SEP)) = Len(es)

\* a blob of three entries: the first has a year field that gives no year,
\* the two after it gave theirs
C15_Witness ==
  /\ Processed
  /\ Len(EntriesOf(py.raw_bib)) = 3
  /\ get_field(EntriesOf(py.raw_bib)[1], <<KEY.year, KEY.date>>) # <<>>
  /\ YearAsClaimed(EntriesOf(py.raw_bib)[1]) = <<>>
  /\ Len(py.years) = 2

\* the years of the k-th node of the graph file
YearsOfNode(k) == Range(format_apa_html(pick_attr(AttrsOf(k), ATTR_BIBTEX)).years)

\* C16: each emitted node's minYear and maxYear are the least and greatest
\* year of its entries, both absent when it has none; when the build is done
\* the global bounds are the least and greatest year of all nodes, the
\* fallback 1990 and 2025 exactly when no node has a year; so every node with
\* years lies within the global bounds.
C16_YearBounds ==
  /\ \A k \in Emitted :
       IF YearsOfNode(k) = {}
       THEN py.nodes[k].minYear = NoYear /\ py.nodes[k].maxYear = NoYear
       ELSE /\ py.nodes[k].minYear = SetMin(YearsOfNode(k))
            /\ py.nodes[k].maxYear = SetMax(YearsOfNode(k))
  /\ py.pc = "done" =>
       LET all == UNION {YearsOfNode(k) : k \in DOMAIN py.G.nodes} IN
       /\ IF all = {}
          THEN /\ py.global_min_year = FALLBACK_MIN_YEAR
               /\ py.global_max_year = FALLBACK_MAX_YEAR
          ELSE /\ py.global_min_year = SetMin(all)
               /\ py.global_max_year = SetMax(all)
       /\ \A k \in Emitted :
            py.nodes[k].minYear # NoYear =>
              /\ py.global_min_year <= py.nodes[k].minYear
              /\ py.nodes[k].minYear <= py.nodes[k].maxYear
              /\ py.nodes[k].maxYear <= py.global_max_year

\* the build is done; the first node has several years, the last node one
\* year before all of them, and the global bounds span both
C16_Witness ==
  /\ py.pc = "done"
  /\ Len(py.nodes) > 1
  /\ py.nodes[1].minYear # NoYear /\ py.nodes[1].minYear < py.nodes[1].maxYear
  /\ Last.minYear # NoYear /\ Last.maxYear < py.nodes[1].minYear
  /\ py.global_min_year = Last.minYear
  /\ py.global_max_year = py.nodes[1].maxYear

\* a blob that holds no citation: absent, empty, the word none in any case,
\* or nothing but delimiters and blank entries
NoCitation(v) ==
  \/ v.type = "NoneType"
  \/ /\ v.type = "str"
     /\ \/ v.text = <<>>
        \/ toLowerCase(v.text) = <<"n", "o", "n", "e">>
        \/ \A e \in Range(split(v.text, ENTRY_SEP)) : strip(e) = <<>>

\* C17: for a blob that is absent, empty, the word none in any case, or made
\* of delimiters and blank entries only, format_apa_html returns the empty
\* fragment, the empty search string and no years, and does not raise.
C17_EmptyBlob ==
  (Processed /\ NoCitation(py.raw_bib)) =>
    /\ Last.apa = <<>>
    /\ Last.searchText = <<>>
    /\ py.years = <<>>
    /\ Last.minYear = NoYear /\ Last.maxYear = NoYear

\* the last node's blob is the word none with a capital, and nothing came of it
C17_Witness ==
  /\ Processed
  /\ py.raw_bib.type = "str"
  /\ py.raw_bib.text # <<"n", "o", "n", "e">>
  /\ toLowerCase(py.raw_bib.text) = <<"n", "o", "n", "e">>
  /\ Last.apa = <<>> /\ Last.searchText = <<>> /\ py.years = <<>>

\* the values FullEntry gives the volume, number, pages and doi fields
SegmentMarks == [volume |-> "7", issue |-> "3", pages |-> "9", doi |-> "d"]

\* the entry's segment fields are empty or their mark, and no mark occurs in
\* its other fields: a segment is in a text iff its mark is
Marked(f) ==
  /\ \A seg \in DOMAIN SegmentMarks : f[seg] \in {<<>>, <<SegmentMarks[seg]>>}
  /\ \A c \in Range(f.author) \cup Range(f.year) \cup Range(f.title) \cup Range(f.journal) :
       c \notin Range(SegmentMarks)

\* C18: for a citation entry, each of the volume, issue, pages and doi
\* segments is in the rendered fragment iff it is in the plain text of the
\* copy button iff its field is not empty, whether or not there is a venue.
C18_FragmentMatchesPlain ==
  (Processed /\ Len(EntriesOf(py.raw_bib)) = 1
     /\ Marked(entryFields(EntriesOf(py.raw_bib)[1]))) =>
    LET f == entryFields(EntriesOf(py.raw_bib)[1])
        button == CHOOSE i \in DOMAIN Last.apa : Last.apa[i] = BUTTON_OPEN
        rendered == SubSeq(Last.apa, 2, button - 1)
        plain == SubSeq(Last.apa, button + 1, Len(Last.apa) - 1)
    IN \A seg \in DOMAIN SegmentMarks :
         /\ (SegmentMarks[seg] \in Range(rendered)) <=> (f[seg] # <<>>)
         /\ (SegmentMarks[seg] \in Range(plain)) <=> (f[seg] # <<>>)

\* the end (x, y) of an edge line is where the node id is stored, or at the
\* origin when id is no node
EndDrawnAt(id, x, y) ==
  IF id \in NodeIds(graphData)
  THEN x = nodePos[id].x /\ y = nodePos[id].y
  ELSE x = 0 /\ y = 0

\* C21: at load and after any sequence of node drags, every edge line exists
\* and each of its ends is drawn at the stored position of the node it names,
\* an end that names no node at the origin (0, 0).
C21_EdgeEndsFollowNodes ==
  /\ DOMAIN edgeLines = EdgeIdx(graphData)
  /\ \A i \in EdgeIdx(graphData) :
       /\ EndDrawnAt(graphData.edges[i].source, edgeLines[i].x1, edgeLines[i].y1)
       /\ EndDrawnAt(graphData.edges[i].target, edgeLines[i].x2, edgeLines[i].y2)

\* an edge names a node that is missing, the node at its other end has been
\* dragged away from where it was loaded, and the line runs from there to
\* the origin
C21_Witness ==
  \E i \in EdgeIdx(graphData) :
    LET e == graphData.edges[i] IN
    /\ e.target \notin NodeIds(graphData)
    /\ e.source \in NodeIds(graphData)
    /\ nodePos[e.source] # LoadPos(e.source)
    /\ edgeLines[i] = [x1 |-> nodePos[e.source].x, y1 |-> nodePos[e.source].y,
                       x2 |-> 0, y2 |-> 0]

\* a change of a type filter or a move of a year handle
FilterEvent ==
  \/ ChkSubtopic \/ ChkAuthor \/ ChkOther
  \/ \E v \in YearInputs : SliderFrom(v)
  \/ \E v \in YearInputs : SliderTo(v)

\* a node click, a background click, a click on the neighbour button or the
\* choice of a search result
SelectionEvent ==
  \/ \E id \in NodeIds(graphData) : NodeClick(id)
  \/ BackgroundClick
  \/ BtnNeighbors
  \/ \E i \in DOMAIN offered(results) : ResultClick(i)

\* C22: a type-filter or year-handle event changes no dim set, selection,
\* highlight or neighborMode, and a node click, background click,
\* neighbour-mode toggle or search-result choice changes no node's or edge's
\* visibility.
C22_VisibilityAndDimmingIndependent ==
  /\ [][FilterEvent =>
          UNCHANGED <<dimmedNodes, dimmedEdges, selectedNodeId, highlighted,
                      neighborMode>>]_vars
  /\ [][SelectionEvent => UNCHANGED <<nodeHidden, edgeHidden>>]_vars

\* the overlay of the selected node is on and leaves undimmed a node and an
\* edge that the filters hide, the selected node itself among the hidden (it
\* was visible when it was clicked)
C22_Witness ==
  /\ neighborMode /\ selectedNodeId # NullId
  /\ dimmedNodes = neighborDimNodes(graphData, selectedNodeId) /\ dimmedNodes # {}
  /\ dimmedEdges = neighborDimEdges(graphData, selectedNodeId)
  /\ selectedNodeId \in nodeHidden
  /\ nodeHidden \ dimmedNodes # {} /\ edgeHidden \ dimmedEdges # {}

\* C23: in every state at most one node is highlighted, and the highlighted
\* node, the node the side panel shows and selectedNodeId agree: all three
\* are none, or all three are the same node.
C23_SelectionAgrees ==
  /\ Cardinality(highlighted) <= 1
  /\ \/ highlighted = {} /\ panel = PanelHint /\ selectedNodeId = NullId
     \/ \E n \in NodeIds(graphData) :
          highlighted = {n} /\ panel = n /\ selectedNodeId = n

\* the copy click, the settling of a clipboard write and the toast timer
CopyEvent ==
  \/ \E k \in panelButtons : CopyClick(k)
  \/ \E i \in DOMAIN pendingWrites : ClipboardResolve(i)
  \/ \E i \in DOMAIN pendingWrites : ClipboardReject(i)
  \/ ToastTimeout

\* every listener of the page can run: the controls and the search box
\* always, a node's listeners while the node is displayed, a result item
\* while the list is shown
HandlersEnabled ==
  /\ ENABLED ChkSubtopic /\ ENABLED ChkAuthor /\ ENABLED ChkOther
  /\ \A v \in YearInputs \ {yearFrom} : ENABLED SliderFrom(v)
  /\ \A v \in YearInputs \ {yearTo} : ENABLED SliderTo(v)
  /\ \A id \in NodeIds(graphData) \ nodeHidden : ENABLED NodeClick(id)
  /\ ENABLED BackgroundClick /\ ENABLED BtnNeighbors /\ ENABLED BtnReset
  /\ \A id \in NodeIds(graphData) \ nodeHidden, d \in DragDeltas :
       Dragged(dragPos(nodePos, id, d[1], d[2])) <= MaxDrag => ENABLED Drag(id, d[1], d[2])
  /\ \A t \in GestureTransforms \ {transform} : ENABLED Zoom(t)
  /\ ENABLED (\E v \in Queries : SearchInput(v))
  /\ resultsShown =>
       /\ ENABLED DocumentClick
       /\ \A i \in DOMAIN offered(results) : ENABLED ResultClick(i)

\* C24: a citation copy action and the later completion of its clipboard
\* write change none of selection, neighborMode, type filters, year range, dim
\* sets, node positions or viewport transform, and every other event handler
\* stays enabled while a write is pending.
C24_CopyIsFireAndForget ==
  /\ [][CopyEvent =>
          UNCHANGED <<selectedNodeId, neighborMode, filterSubtopic, filterAuthor,
                      filterOther, yearFrom, yearTo, dimmedNodes, dimmedEdges,
                      nodePos, transform>>]_vars
  /\ [](pendingWrites # <<>> => HandlersEnabled)

\* a write is pending for a citation of a node that the side panel no longer
\* shows, after an earlier write was completed, with a selection, a dim
\* overlay, a dragged node and a hidden node in the state: other handlers ran
\* while the write was pending
C24_Witness ==
  /\ pendingWrites # <<>> /\ panel # pendingWrites[1].node
  /\ clipboardText # NoText
  /\ selectedNodeId # NullId /\ neighborMode /\ dimmedEdges # {}
  /\ Dragged(nodePos) > 0 /\ nodeHidden # {}

\* C25: for every model with at least one node, a single node or nodes at one
\* position included, the scale of the load-time fit is finite and positive.
C25_FitScaleFinite ==
  Len(graphData.nodes) >= 1 => (initTransform.k[2] > 0 /\ initTransform.k[1] > 0)

=============================================================================
